---------------------------- MODULE Spec2Model ----------------------------
(***************************************************************************)
(* A model of mt_client's map renderer (src/src/gfx/map.rs): the block     *)
(* store, the deferred-block readiness tracker of add_block, the timeout   *)
(* path and the mesh hand-off of update, the two meshgen worker threads,   *)
(* and the culling and blend ordering of render.                           *)
(*                                                                         *)
(* Three specifications share the definitions of the operations:           *)
(*   Spec         the render thread and both meshgen workers, for a server *)
(*                that delivers a chunk and one of its face neighbours;    *)
(*   SpecTracker  the render thread alone (the workers are not scheduled,  *)
(*                so meshgen_channel keeps every job ever sent), for a     *)
(*                server that delivers a chunk and its six face            *)
(*                neighbours;                                              *)
(*   SpecRender   render() applied to render model tables and cameras      *)
(*                drawn from bounded sets.                                 *)
(***************************************************************************)
EXTENDS Integers, Sequences, FiniteSets, TLC

VARIABLES
    blocks,           \* MapRender.blocks: chunk coordinate -> payload
    blocks_defer,     \* MapRender.blocks_defer: coordinate -> DeferredBlock
    block_models,     \* MapRender.block_models: coordinate -> BlockModel
    meshgen_channel,  \* the unbounded crossbeam channel: a sequence of batches
    queue_consume,    \* MapRender.queue_consume
    queue_produce,    \* MapRender.queue_produce (behind the swap mutex)
    wpc,              \* each meshgen worker's position in its loop
    wpos,             \* each worker's local `pos`
    wblock,           \* each worker's locals `block` and `nbors`
    rpc,              \* the render thread's position inside update()
    vbuf_live,        \* vertex buffers alive on the device
    camera,           \* State.view: the camera's position and look axis
    draws,            \* the draw calls issued by the last render()
    env,              \* what the server delivers and how the clock advances
    ticks,            \* history: clock advances so far
    blocks_ver,       \* history: inserts into the block store so far
    ev,               \* history: the render thread's last operation
    mesh_args,        \* create_mesh: block and nbors, and whether it returned
    buffer,           \* create_mesh: the MeshData it fills
    nodes,            \* create_atlas: the node table, a list of tiles per node
    allocator,        \* create_atlas: the canvas size and the rectangles given out
    textures,         \* create_atlas: the images placed, each with its rectangle
    atlas_pc,         \* create_atlas: the tile it is at, id_map and the image made
    map,              \* run: whether `map` is Some(MapRender)
    nodedefs,         \* run: the node definitions received and not yet taken
    media,            \* MediaMgr: the files of the server pack
    flow,             \* run: the control flow of the event loop
    gfx_pc,           \* run: the handler the loop is in
    map_builds,       \* history: calls of MapRender::new that returned
    readers,          \* blocks: the workers that hold the read lock
    queue_lock,       \* queue_produce: the worker that holds the mutex
    poisoned,         \* the locks a panic has poisoned
    conn,             \* net.rs: the Conn of the network task and what it sent
    net_events,       \* the channel of NetEvents, from the event loop to net.rs
    events            \* the EventLoopProxy: GfxEvents sent and not yet handled

vars == << blocks, blocks_defer, block_models, meshgen_channel, queue_consume,
           queue_produce, wpc, wpos, wblock, rpc, vbuf_live, camera, draws,
           env, ticks, blocks_ver, ev, mesh_args, buffer, nodes, allocator,
           textures, atlas_pc, map, nodedefs, media, flow, gfx_pc, map_builds,
           readers, queue_lock, poisoned, conn, net_events, events >>

---------------------------------------------------------------------------
(* Bounds of the model. *)

\* add_block calls per session under SpecTracker
MaxDeliveries == 7
\* add_block calls per session under Spec
MaxSysDeliveries == 3
\* clock advances per session
MaxTicks == 1
\* clock units per millisecond (an Instant is finer than as_millis)
UnitsPerMs == 2
\* create_atlas: nodes of a table
MaxNodes == 2
\* create_atlas: tiles of a node
MaxTiles == 2
\* run: calls of MapRender::new per session
MaxBuilds == 2
\* run: MapBlock events that reach add_block per session
MaxGfxDeliveries == 2

(* Program constants. *)

\* the deferral timeout of update(), in milliseconds
TIMEOUT_MS == 100
\* number of meshgen threads spawned by MapRender::new
NUM_WORKERS == 2

---------------------------------------------------------------------------
(* HashMap as a function on its keys. *)

EmptyMap == << >>

MapInsert(m, k, v) == [ x \in DOMAIN m \cup {k} |-> IF x = k THEN v ELSE m[x] ]

MapRemove(m, k) == [ x \in DOMAIN m \ {k} |-> m[x] ]

(* The channel.  Its content is a sequence of batches, each a non-empty set *)
(* of coordinates.  A send appends a batch of one coordinate.  The sends   *)
(* of one drain_filter pass of update() happen in the iteration order of   *)
(* the deferred map, which the program does not determine: they form one   *)
(* batch, and the order inside it is resolved when a worker receives.      *)

\* the coordinates s sent one after another
SendEach(s) == [ i \in DOMAIN s |-> { s[i] } ]

\* the coordinates of S sent in an undetermined order
SendInAnyOrder(S) == IF S = {} THEN << >> ELSE << S >>

\* the channel after a receiver took p from its head batch
AfterRecv(ch, p) ==
    IF Head(ch) = {p} THEN Tail(ch) ELSE << Head(ch) \ {p} >> \o Tail(ch)

\* number of jobs for x among the batches s
Occurrences(s, x) == Cardinality({ i \in DOMAIN s : x \in s[i] })

---------------------------------------------------------------------------
(* Chunk coordinates and face directions. *)

WrapI16(x) == ((x + 32768) % 65536) - 32768

WrapU8(x) == x % 256

FACE_DIR ==
    [ f \in 0..5 |->
        CASE f = 0 -> << 0, 1, 0 >>
          [] f = 1 -> << 0, -1, 0 >>
          [] f = 2 -> << 1, 0, 0 >>
          [] f = 3 -> << -1, 0, 0 >>
          [] f = 4 -> << 0, 0, 1 >>
          [] f = 5 -> << 0, 0, -1 >> ]

Faces == 0..5

\* pos + Vector3::from(FACE_DIR[f]) on Point3<i16>
NborPos(pos, f) ==
    << WrapI16(pos[1] + FACE_DIR[f][1]),
       WrapI16(pos[2] + FACE_DIR[f][2]),
       WrapI16(pos[3] + FACE_DIR[f][3]) >>

\* f ^ 1: the face of the neighbour that looks back
ReverseFace(f) == IF f % 2 = 0 THEN f + 1 ELSE f - 1

Origin == << 0, 0, 0 >>

NoPos == << >>

\* a chunk and its six face neighbours
CrossWorld == {Origin} \cup { NborPos(Origin, f) : f \in Faces }

\* the six outer chunks of CrossWorld: each always lacks five neighbours
OuterChunks == CrossWorld \ {Origin}

\* a chunk and one face neighbour
PairWorld == { Origin, NborPos(Origin, 2) }

---------------------------------------------------------------------------
(* Chunk payloads.  A payload is modelled by the content id that fills the *)
(* whole chunk; the node table gives each content id its draw type and     *)
(* alpha mode.                                                             *)

NoBlock == "none"

Contents == { "air", "stone", "water" }

\* MeshgenInfo.nodes, for the node definitions the server sent
Nodes ==
    [ c \in Contents |->
        CASE c = "air"   -> [ draw_type |-> "None",   alpha |-> "Opaque" ]
          [] c = "stone" -> [ draw_type |-> "Cube",   alpha |-> "Opaque" ]
          [] c = "water" -> [ draw_type |-> "Liquid", alpha |-> "Blend" ] ]

---------------------------------------------------------------------------
(* Time.  The program reads DeferredBlock.time only through                *)
(* time.elapsed() (line 197), so a record carries the time elapsed since   *)
(* Instant::now() was stored in it, in clock units.  The only comparison   *)
(* is as_millis() > 100: every elapsed time of 101 ms or more is kept as   *)
(* 101 ms.                                                                 *)

\* Duration::as_millis: whole milliseconds, the rest cut off
AsMillis(d) == d \div UnitsPerMs

\* a variant that never fires
TimedOutNever(rec) == FALSE
\* a variant that already fires at 100 ms: >= in place of >
TimedOutEarly(rec) == AsMillis(rec.elapsed) >= TIMEOUT_MS
\* the drain_filter predicate of update(): v.time.elapsed().as_millis() > 100
TimedOut(rec) == AsMillis(rec.elapsed) > TIMEOUT_MS

\* the largest elapsed time told apart
MaxElapsed == (TIMEOUT_MS + 1) * UnitsPerMs

\* a record after d more clock units
Older(rec, d) ==
    [ rec EXCEPT !.elapsed = IF @ + d > MaxElapsed THEN MaxElapsed ELSE @ + d ]

\* the clock advances by 100 ms, by 100 ms and one unit, or by 101 ms
TickSteps ==
    { TIMEOUT_MS * UnitsPerMs, TIMEOUT_MS * UnitsPerMs + 1,
      (TIMEOUT_MS + 1) * UnitsPerMs }

\* the clock advances by 101 ms
CoarseTickSteps == { (TIMEOUT_MS + 1) * UnitsPerMs }

---------------------------------------------------------------------------
(* add_block: the readiness tracker.  The loop state is the deferred map,  *)
(* the jobs sent so far by this call, and the locals mask and count.       *)

InitialMask == [ f \in Faces |-> FALSE ]

\* let mut count = 6
InitialCount == 6

\* a variant that sends the job and keeps the record
DeferHitKeepRecord(st, npos, rf) ==
    LET inner == st.defer[npos]
        cnt == WrapU8(inner.count - 1)
    IN  IF inner.mask[rf]
        THEN st
        ELSE IF cnt = 0
             THEN [ st EXCEPT !.sends = Append(@, npos),
                              !.defer[npos] =
                                 [ inner EXCEPT !.mask[rf] = TRUE, !.count = cnt ] ]
             ELSE [ st EXCEPT !.defer[npos] =
                      [ inner EXCEPT !.mask[rf] = TRUE, !.count = cnt ] ]
\* a variant that lowers the count again for a direction already marked,
\* down to 1
DeferHitRecount(st, npos, rf) ==
    LET inner == st.defer[npos]
        cnt == WrapU8(inner.count - 1)
    IN  IF inner.mask[rf]
        THEN IF cnt = 0 THEN st
             ELSE [ st EXCEPT !.defer[npos] = [ inner EXCEPT !.count = cnt ] ]
        ELSE IF cnt = 0
             THEN [ st EXCEPT !.sends = Append(@, npos),
                              !.defer = MapRemove(@, npos) ]
             ELSE [ st EXCEPT !.defer[npos] =
                      [ inner EXCEPT !.mask[rf] = TRUE, !.count = cnt ] ]
\* a variant without the test of inner.mask[rf]
DeferHitNoCheck(st, npos, rf) ==
    LET inner == st.defer[npos]
        cnt == WrapU8(inner.count - 1)
    IN  IF cnt = 0
        THEN [ st EXCEPT !.sends = Append(@, npos),
                         !.defer = MapRemove(@, npos) ]
        ELSE [ st EXCEPT !.defer[npos] =
                 [ inner EXCEPT !.mask[rf] = TRUE, !.count = cnt ] ]
\* the body of `if !inner.mask[rf]` for a neighbour that holds a record
DeferHit(st, npos, rf) ==
    LET inner == st.defer[npos]
        cnt == WrapU8(inner.count - 1)
    IN  IF inner.mask[rf]
        THEN st
        ELSE IF cnt = 0
             THEN [ st EXCEPT !.sends = Append(@, npos),
                              !.defer = MapRemove(@, npos) ]
             ELSE [ st EXCEPT !.defer[npos] =
                      [ inner EXCEPT !.mask[rf] = TRUE, !.count = cnt ] ]

\* a variant that marks the direction without counting it
SatisfyNoCount(st, f) == [ st EXCEPT !.mask[f] = TRUE ]
\* mask[f] = true; count -= 1
Satisfy(st, f) == [ st EXCEPT !.mask[f] = TRUE, !.count = WrapU8(@ - 1) ]

\* a variant that sends a job for a neighbour the store lacks
AddBlockFaceAbsentJob(st, pos, f, blks) ==
    LET npos == NborPos(pos, f)
    IN  IF npos \in DOMAIN st.defer
        THEN Satisfy(DeferHit(st, npos, ReverseFace(f)), f)
        ELSE IF npos \in DOMAIN blks
             THEN Satisfy([ st EXCEPT !.sends = Append(@, npos) ], f)
             ELSE [ st EXCEPT !.sends = Append(@, npos) ]
\* a variant that sends a job for every stored neighbour, record or not
AddBlockFaceAlwaysNborJob(st, pos, f, blks) ==
    LET npos == NborPos(pos, f)
    IN  IF npos \in DOMAIN st.defer
        THEN Satisfy([ DeferHit(st, npos, ReverseFace(f))
                         EXCEPT !.sends = Append(@, npos) ], f)
        ELSE IF npos \in DOMAIN blks
             THEN Satisfy([ st EXCEPT !.sends = Append(@, npos) ], f)
             ELSE st
\* a variant that sends no job for a stored neighbour without a record
AddBlockFaceNoNborJob(st, pos, f, blks) ==
    LET npos == NborPos(pos, f)
    IN  IF npos \in DOMAIN st.defer
        THEN Satisfy(DeferHit(st, npos, ReverseFace(f)), f)
        ELSE IF npos \in DOMAIN blks
             THEN Satisfy(st, f)
             ELSE st
\* a variant that does not count a neighbour holding a record as satisfied
AddBlockFaceDeferUnsatisfied(st, pos, f, blks) ==
    LET npos == NborPos(pos, f)
    IN  IF npos \in DOMAIN st.defer
        THEN DeferHit(st, npos, ReverseFace(f))
        ELSE IF npos \in DOMAIN blks
             THEN Satisfy([ st EXCEPT !.sends = Append(@, npos) ], f)
             ELSE st
\* one iteration of `for (f, off) in FACE_DIR.iter().enumerate()`
AddBlockFace(st, pos, f, blks) ==
    LET npos == NborPos(pos, f)
    IN  IF npos \in DOMAIN st.defer
        THEN Satisfy(DeferHit(st, npos, ReverseFace(f)), f)
        ELSE IF npos \in DOMAIN blks
             THEN Satisfy([ st EXCEPT !.sends = Append(@, npos) ], f)
             ELSE st

\* the loop over the six faces, in the order of FACE_DIR
RECURSIVE AddBlockLoop(_, _, _, _)
AddBlockLoop(st, pos, f, blks) ==
    IF f > 5 THEN st
    ELSE AddBlockLoop(AddBlockFace(st, pos, f, blks), pos, f + 1, blks)

\* a variant that stores the current time in a record it finds
AddBlockFinishResetsTime(st, pos) ==
    IF st.count = 0
    THEN [ st EXCEPT !.sends = Append(@, pos) ]
    ELSE [ st EXCEPT !.defer = MapInsert(MapRemove(@, pos), pos,
             [ mask |-> st.mask, count |-> st.count, elapsed |-> 0 ]) ]
\* a variant that tests count == 1
AddBlockFinishOffByOne(st, pos) ==
    IF st.count = 1
    THEN [ st EXCEPT !.sends = Append(@, pos) ]
    ELSE IF pos \in DOMAIN st.defer
         THEN [ st EXCEPT !.defer[pos] =
                  [ @ EXCEPT !.mask = st.mask, !.count = st.count ] ]
         ELSE [ st EXCEPT !.defer = MapInsert(@, pos,
                  [ mask |-> st.mask, count |-> st.count, elapsed |-> 0 ]) ]
\* `if count == 0 { send(pos) } else { match blocks_defer.entry(pos) ... }`
AddBlockFinish(st, pos) ==
    IF st.count = 0
    THEN [ st EXCEPT !.sends = Append(@, pos) ]
    ELSE IF pos \in DOMAIN st.defer
         THEN [ st EXCEPT !.defer[pos] =
                  [ @ EXCEPT !.mask = st.mask, !.count = st.count ] ]
         ELSE [ st EXCEPT !.defer = MapInsert(@, pos,
                  [ mask |-> st.mask, count |-> st.count, elapsed |-> 0 ]) ]

\* the whole of add_block after the insert into the block store
AddBlockResult(pos, blks, defer) ==
    AddBlockFinish(
        AddBlockLoop([ defer |-> defer, sends |-> << >>,
                       mask |-> InitialMask, count |-> InitialCount ],
                     pos, 0, blks),
        pos)

\* MapRender::add_block(pos, block), called by the render thread between
\* frames.  The write lock is taken for the insert and the read lock for the
\* rest; no worker step of this model holds the read lock across steps.
\* The queue of GfxEvents is left to the caller, which may take the call
\* from it.
AddBlock(pos, block) ==
    /\ rpc = "idle"
    /\ blocks_ver < env.budget
    /\ LET blks == MapInsert(blocks, pos, block)
           res == AddBlockResult(pos, blks, blocks_defer)
       IN  /\ blocks' = blks
           /\ blocks_defer' = res.defer
           /\ meshgen_channel' = meshgen_channel \o SendEach(res.sends)
           /\ ev' = [ op |-> "add_block", pos |-> pos,
                      sends |-> SendEach(res.sends), dropped |-> 0 ]
    /\ blocks_ver' = blocks_ver + 1
    /\ UNCHANGED << block_models, queue_consume, queue_produce, wpc, wpos,
                    wblock, rpc, vbuf_live, camera, draws, env, ticks,
                    mesh_args, buffer,
                    nodes, allocator, textures, atlas_pc,
                    map, nodedefs, media, flow, gfx_pc, map_builds,
                    readers, queue_lock, poisoned,
                    conn, net_events >>

---------------------------------------------------------------------------
(* Meshing, for chunks filled with one content id.  Inside such a chunk    *)
(* every face has a neighbour voxel of the same content; a face on the     *)
(* chunk border looks at the neighbour chunk in that direction.            *)

\* vertices of one cube face (a row of CUBE), back-face culling set
FACE_VERTICES == 6
\* voxels on one side of a chunk: 16 * 16
SIDE_VOXELS == 256

\* mesh.rs 126-136: whether the neighbour voxel hides the face
FaceCulled(draw_type, content, ncontent) ==
    /\ ncontent \in DOMAIN Nodes
    /\ CASE draw_type = "Cube"   -> Nodes[ncontent].draw_type = "Cube"
         [] draw_type = "Liquid" -> \/ Nodes[ncontent].draw_type = "Cube"
                                    \/ ncontent = content
         [] OTHER -> FALSE

\* the faces a voxel on the border towards f emits in direction f
BorderFaceEmitted(content, nbor) ==
    LET def == Nodes[content]
    IN  IF def.draw_type \in { "Cube", "Liquid" }
        THEN nbor # NoBlock /\ ~FaceCulled(def.draw_type, content, nbor)
        ELSE TRUE

\* the faces a voxel emits towards a voxel of its own chunk
InnerFaceEmitted(content) ==
    LET def == Nodes[content]
    IN  IF def.draw_type \in { "Cube", "Liquid" }
        THEN ~FaceCulled(def.draw_type, content, content)
        ELSE TRUE

\* create_mesh: the lengths of the two vertex lists
CreateMesh(block, nbors) ==
    LET drawn == block \in DOMAIN Nodes /\ Nodes[block].draw_type # "None"
        sides == Cardinality({ f \in Faces : BorderFaceEmitted(block, nbors[f]) })
        inner == IF InnerFaceEmitted(block)
                 THEN 6 * 4096 - 6 * SIDE_VOXELS ELSE 0
        n == IF drawn THEN (sides * SIDE_VOXELS + inner) * FACE_VERTICES ELSE 0
        blend == drawn /\ Nodes[block].alpha = "Blend"
    IN  [ vertices |-> IF blend THEN 0 ELSE n,
          vertices_blend |-> IF blend THEN n ELSE 0 ]

---------------------------------------------------------------------------
(* create_mesh voxel by voxel.  Here a chunk payload is `fill` everywhere  *)
(* but at the voxel index `at`, where it is `is`; a vertex list is the set *)
(* of the faces pushed to it, each with the order in which the six corner  *)
(* vertices of its CUBE row were pushed.                                   *)

\* voxels of a chunk: param_0 has 16 * 16 * 16 entries
CHUNK_VOXELS == 4096

\* the content ids of the voxel-level payloads; "ignore" has no node
\* definition
VoxelContents ==
    Contents \cup { "dirt", "lava", "glass", "grass", "ignore" }

\* mkinfo.nodes[content]: draw type, alpha mode and the BackfaceCull flag of
\* the tiles
NodeDef(c) ==
    CASE c \in Contents ->
           [ draw_type |-> Nodes[c].draw_type, alpha |-> Nodes[c].alpha,
             backface_cull |-> TRUE ]
      [] c = "dirt"  -> [ draw_type |-> "Cube", alpha |-> "Opaque",
                          backface_cull |-> TRUE ]
      [] c = "lava"  -> [ draw_type |-> "Liquid", alpha |-> "Opaque",
                          backface_cull |-> FALSE ]
      [] c = "glass" -> [ draw_type |-> "GlassLike", alpha |-> "Blend",
                          backface_cull |-> TRUE ]
      [] c = "grass" -> [ draw_type |-> "Plant", alpha |-> "Opaque",
                          backface_cull |-> FALSE ]

\* mkinfo.nodes[content] is Some
HasNodeDef(c) == c \in VoxelContents \ { "ignore" }

\* None of Option<MapBlock>, among the voxel-level payloads
NoVoxels == [ fill |-> NoBlock, at |-> 0, is |-> NoBlock ]

\* block.param_0[index]
VoxelAt(blk, index) == IF index = blk.at THEN blk.is ELSE blk.fill

\* line 71: pos[i] = (index >> (4 * i)) & 0xf
VoxelPos(index) ==
    [ i \in 0..2 |-> (index \div (IF i = 0 THEN 1 ELSE IF i = 1 THEN 16 ELSE 256)) % 16 ]

\* line 123: npos[0] | (npos[1] << 4) | (npos[2] << 8), for components 0..15
VoxelIndex(pos) == pos[0] + 16 * pos[1] + 256 * pos[2]

\* line 108: the axis of face f
FaceAxis(f) == << 1, 1, 0, 0, 2, 2 >>[f + 1]

\* a variant that reads the neighbour chunk at the unwrapped border
\* coordinate of the voxel itself
WrapVoxelCoordNone(x) == IF x < 0 THEN 0 ELSE 15
\* line 120: (npos[c] + 16) % 16, for the two values outside 0..16
WrapVoxelCoord(x) == (x + 16) % 16

\* a variant in which a cube hides only a cube of its own content
NeighbourHidesSameContent(draw_type, content, ncontent) ==
    /\ HasNodeDef(ncontent)
    /\ CASE draw_type = "Cube" -> ncontent = content
         [] draw_type = "Liquid" ->
              \/ NodeDef(ncontent).draw_type = "Cube"
              \/ ncontent = content
         [] OTHER -> FALSE
\* a variant in which a liquid is hidden only by a cube
NeighbourHidesCubeOnly(draw_type, content, ncontent) ==
    /\ HasNodeDef(ncontent)
    /\ draw_type \in { "Cube", "Liquid" }
    /\ NodeDef(ncontent).draw_type = "Cube"
\* lines 126-136: the neighbour voxel hides the face
NeighbourHides(draw_type, content, ncontent) ==
    /\ HasNodeDef(ncontent)
    /\ CASE draw_type = "Cube" -> NodeDef(ncontent).draw_type = "Cube"
         [] draw_type = "Liquid" ->
              \/ NodeDef(ncontent).draw_type = "Cube"
              \/ ncontent = content
         [] OTHER -> FALSE

\* a variant in which a neighbour voxel without node definition hides the
\* face
FaceSkippedUnknownHides(blk, nbors, index, f) ==
    LET content == VoxelAt(blk, index)
        c       == FaceAxis(f)
        pos     == VoxelPos(index)
        moved   == pos[c] + FACE_DIR[f][c + 1]
        outside == moved \notin 0..15
    IN  IF outside /\ nbors[f] = NoVoxels THEN TRUE
        ELSE LET nblk == IF outside THEN nbors[f] ELSE blk
                 npos == [ pos EXCEPT ![c] =
                             IF outside THEN WrapVoxelCoord(moved) ELSE moved ]
                 ncontent == VoxelAt(nblk, VoxelIndex(npos))
             IN  \/ ~HasNodeDef(ncontent)
                 \/ NeighbourHides(NodeDef(content).draw_type, content,
                                   ncontent)
\* lines 107-137, for a Cube or Liquid voxel: the `continue`s of face f
FaceSkipped(blk, nbors, index, f) ==
    LET content == VoxelAt(blk, index)
        c       == FaceAxis(f)
        pos     == VoxelPos(index)
        moved   == pos[c] + FACE_DIR[f][c + 1]
        outside == moved \notin 0..15
    IN  IF outside /\ nbors[f] = NoVoxels THEN TRUE
        ELSE LET nblk == IF outside THEN nbors[f] ELSE blk
                 npos == [ pos EXCEPT ![c] =
                             IF outside THEN WrapVoxelCoord(moved) ELSE moved ]
             IN  NeighbourHides(NodeDef(content).draw_type, content,
                                VoxelAt(nblk, VoxelIndex(npos)))

\* a variant that pushes the row forwards twice
VertexOrderRepeated(backface_cull) ==
    IF backface_cull THEN << 0, 1, 2, 3, 4, 5 >>
    ELSE << 0, 1, 2, 3, 4, 5, 0, 1, 2, 3, 4, 5 >>
\* lines 150-153 and 94-100: the CUBE row forwards, and backwards too when
\* the tile lacks BackfaceCull
VertexOrder(backface_cull) ==
    IF backface_cull THEN << 0, 1, 2, 3, 4, 5 >>
    ELSE << 0, 1, 2, 3, 4, 5, 5, 4, 3, 2, 1, 0 >>

\* the body of the loop over param_0 for one voxel: the faces it pushes
VoxelFaces(blk, nbors, index) ==
    LET content == VoxelAt(blk, index)
    IN  IF ~HasNodeDef(content) THEN {}
        ELSE LET def == NodeDef(content)
             IN  CASE def.draw_type = "None" -> {}
                   [] def.draw_type = "Plant" ->
                        { [ index |-> index, f |-> 2, mat |-> m,
                            order |-> VertexOrder(def.backface_cull) ] :
                            m \in { 45, 135 } }
                   [] OTHER ->
                        { [ index |-> index, f |-> f, mat |-> 0,
                            order |-> VertexOrder(def.backface_cull) ] :
                            f \in { g \in Faces :
                                      ~ (/\ def.draw_type \in { "Cube", "Liquid" }
                                         /\ FaceSkipped(blk, nbors, index, g)) } }

\* line 65: the list the voxel's faces go to
VoxelIsBlend(blk, index) ==
    /\ HasNodeDef(VoxelAt(blk, index))
    /\ NodeDef(VoxelAt(blk, index)).alpha = "Blend"

\* MeshData::new
EmptyBuffer == [ vertices |-> {}, vertices_blend |-> {} ]

\* create_mesh on a voxel-level payload
CreateMeshData(blk, nbors) ==
    [ vertices |->
        UNION { VoxelFaces(blk, nbors, index) :
                  index \in { i \in 0..(CHUNK_VOXELS - 1) : ~VoxelIsBlend(blk, i) } },
      vertices_blend |->
        UNION { VoxelFaces(blk, nbors, index) :
                  index \in { i \in 0..(CHUNK_VOXELS - 1) : VoxelIsBlend(blk, i) } } ]

\* no call of create_mesh under way
NoMeshArgs ==
    [ block |-> NoVoxels, nbors |-> [ f \in Faces |-> NoVoxels ],
      returned |-> FALSE ]

\* lines 477-484 of map.rs: the worker's call of create_mesh on a fresh
\* MeshData
MeshChunk ==
    /\ mesh_args.block # NoVoxels
    /\ ~mesh_args.returned
    /\ buffer' = CreateMeshData(mesh_args.block, mesh_args.nbors)
    /\ mesh_args' = [ mesh_args EXCEPT !.returned = TRUE ]
    /\ UNCHANGED << blocks, blocks_defer, block_models, meshgen_channel,
                    queue_consume, queue_produce, wpc, wpos, wblock, rpc,
                    vbuf_live, camera, draws, env, ticks, blocks_ver, ev,
                    nodes, allocator, textures, atlas_pc,
                    map, nodedefs, media, flow, gfx_pc, map_builds,
                    readers, queue_lock, poisoned,
                    conn, net_events, events >>

---------------------------------------------------------------------------
(* create_atlas.  The node table is the list of the nodes in the order in  *)
(* which values_mut() yields them, each node the list of its tiles,        *)
(* overlay tiles and special tiles in the order of the chain of lines      *)
(* 15-18.  A texture string is the list of its parts between the '^'       *)
(* separators, an image is its width and height.  The allocator is the     *)
(* guillotiere crate's SimpleAtlasAllocator, which is not part of the      *)
(* sources: it is modelled by what it promises, a rectangle of the         *)
(* requested size inside the canvas that overlaps none given out before,   *)
(* anywhere such a rectangle exists, and None for an empty size or when    *)
(* there is no room.                                                       *)

\* the largest i32, the type of the allocator's sizes
MaxI32 == 2147483647

\* the media files that decode, with the size of their image
MediaImage ==
    [ file \in { "a.png", "b.png" } |->
        IF file = "a.png" THEN [ w |-> 2, h |-> 2 ] ELSE [ w |-> 1, h |-> 1 ] ]

\* the media files the server may send; "bad.png" does not decode
MediaFiles == DOMAIN MediaImage \cup { "bad.png" }

\* line 44: the image of one random pixel
Placeholder == [ w |-> 1, h |-> 1 ]

\* lines 20-29 and 36-47: load_texture of one part, or the placeholder
PartImage(part) ==
    IF part \in media /\ part \in DOMAIN MediaImage THEN MediaImage[part]
    ELSE Placeholder

\* TileAnim: none, or VerticalFrame with n_frames
NoAnim == [ vertical |-> FALSE, x |-> 0, y |-> 0 ]

VerticalFrame(x, y) == [ vertical |-> TRUE, x |-> x, y |-> y ]

\* lines 54-68: the crop to the first frame; crop() cuts the height down to
\* the image's
CropFrame(img, anim) ==
    IF ~anim.vertical \/ anim.x = 0 \/ anim.y = 0 THEN img
    ELSE LET frame_height == (img.w * anim.y) \div anim.x
         IN  [ w |-> img.w,
               h |-> IF frame_height < img.h THEN frame_height ELSE img.h ]

\* lines 31-70: make_texture; overlay() draws on the base and keeps its size
MakeTexture(tile) == CropFrame(PartImage(Head(tile.name)), tile.animation)

\* the value of tile.texture.custom before create_atlas writes it
NoSlot == -1

\* no rectangle: None of Option<Rectangle>
NoRect == [ x |-> 0, y |-> 0, w |-> 0, h |-> 0 ]

Overlaps(a, b) ==
    /\ a.x < b.x + b.w
    /\ b.x < a.x + a.w
    /\ a.y < b.y + b.h
    /\ b.y < a.y + a.h

\* the places for a rectangle of w by h: if there is one at all there is
\* one whose left side is at 0 or at the right side of a rectangle given
\* out, and whose bottom side is at 0 or at the top of one
FreeRects(al, w, h) ==
    { r \in { [ x |-> x, y |-> y, w |-> w, h |-> h ] :
                x \in { 0 } \cup { q.x + q.w : q \in al.rects },
                y \in { 0 } \cup { q.y + q.h : q \in al.rects } } :
        /\ r.x + w <= al.width
        /\ r.y + h <= al.height
        /\ \A q \in al.rects : ~Overlaps(r, q) }

\* line 82: allocator.allocate(size), the results it may give
Allocate(al, w, h) ==
    IF w <= 0 \/ h <= 0 THEN { NoRect }
    ELSE IF FreeRects(al, w, h) = {} THEN { NoRect }
    ELSE FreeRects(al, w, h)

\* line 11: SimpleAtlasAllocator::new(size2(1, 1))
NewAllocator == [ width |-> 1, height |-> 1, rects |-> {} ]

\* lines 84-87: the canvas doubled in both dimensions
Grown(al) == [ al EXCEPT !.width = 2 * al.width, !.height = 2 * al.height ]

\* create_atlas did not start yet
AtlasStart ==
    [ at |-> "node", node |-> 1, tile |-> 1, id_map |-> EmptyMap,
      img |-> Placeholder ]

\* lines 14 and 72, and lines 99-129: the next node of the table, with an
\* id_map of its own, or the end of the loop and the composition of the
\* atlas image
AtlasNode ==
    /\ atlas_pc.at = "node"
    /\ atlas_pc' =
         IF atlas_pc.node > Len(nodes) THEN [ atlas_pc EXCEPT !.at = "done" ]
         ELSE [ atlas_pc EXCEPT !.at = "tile", !.tile = 1,
                                !.id_map = EmptyMap ]
    /\ UNCHANGED << blocks, blocks_defer, block_models, meshgen_channel,
                    queue_consume, queue_produce, wpc, wpos, wblock, rpc,
                    vbuf_live, camera, draws, env, ticks, blocks_ver, ev,
                    mesh_args, buffer, nodes, allocator, textures,
                    map, nodedefs, media, flow, gfx_pc, map_builds,
                    readers, queue_lock, poisoned,
                    conn, net_events, events >>

\* lines 74-76: the next tile of the node; a texture string that id_map
\* holds gives its slot, any other has its image made
AtlasTile ==
    /\ atlas_pc.at = "tile"
    /\ LET n == atlas_pc.node
           t == atlas_pc.tile
       IN  IF t > Len(nodes[n])
           THEN /\ atlas_pc' = [ atlas_pc EXCEPT !.at = "node", !.node = n + 1 ]
                /\ nodes' = nodes
           ELSE IF nodes[n][t].name \in DOMAIN atlas_pc.id_map
           THEN /\ nodes' = [ nodes EXCEPT ![n][t].custom =
                                atlas_pc.id_map[nodes[n][t].name] ]
                /\ atlas_pc' = [ atlas_pc EXCEPT !.tile = t + 1 ]
           ELSE /\ atlas_pc' = [ atlas_pc EXCEPT !.at = "alloc",
                                    !.img = MakeTexture(nodes[n][t]) ]
                /\ nodes' = nodes
    /\ UNCHANGED << blocks, blocks_defer, block_models, meshgen_channel,
                    queue_consume, queue_produce, wpc, wpos, wblock, rpc,
                    vbuf_live, camera, draws, env, ticks, blocks_ver, ev,
                    mesh_args, buffer, allocator, textures,
                    map, nodedefs, media, flow, gfx_pc, map_builds,
                    readers, queue_lock, poisoned,
                    conn, net_events, events >>

\* a variant that counts the slots from 1
NextSlotFromOne(tex) == Len(tex) + 1
\* line 90: `let id = textures.len()`, taken before the push
NextSlot(tex) == Len(tex)

\* lines 82 and 89-93: the allocation succeeds; the image and its rectangle
\* are pushed, the slot goes to id_map and to the tile
AtlasAllocate ==
    /\ atlas_pc.at = "alloc"
    /\ \E rect \in Allocate(allocator, atlas_pc.img.w, atlas_pc.img.h) :
         /\ rect # NoRect
         /\ LET id == NextSlot(textures)
                n  == atlas_pc.node
                t  == atlas_pc.tile
            IN  /\ textures' = Append(textures, [ img |-> atlas_pc.img,
                                                  rect |-> rect ])
                /\ allocator' = [ allocator EXCEPT !.rects = @ \cup { rect } ]
                /\ nodes' = [ nodes EXCEPT ![n][t].custom = id ]
                /\ atlas_pc' = [ atlas_pc EXCEPT
                                   !.at = "tile", !.tile = t + 1,
                                   !.id_map = MapInsert(@, nodes[n][t].name, id) ]
    /\ UNCHANGED << blocks, blocks_defer, block_models, meshgen_channel,
                    queue_consume, queue_produce, wpc, wpos, wblock, rpc,
                    vbuf_live, camera, draws, env, ticks, blocks_ver, ev,
                    mesh_args, buffer,
                    map, nodedefs, media, flow, gfx_pc, map_builds,
                    readers, queue_lock, poisoned,
                    conn, net_events, events >>

\* lines 82-88: the allocation fails and the canvas grows.  Past the
\* largest i32 the multiplication panics in a build with overflow checks,
\* and in one without it wraps to a negative size that grow() refuses with
\* a panic.
AtlasGrow ==
    /\ atlas_pc.at = "alloc"
    /\ NoRect \in Allocate(allocator, atlas_pc.img.w, atlas_pc.img.h)
    /\ IF allocator.width > MaxI32 \div 2 \/ allocator.height > MaxI32 \div 2
       THEN /\ atlas_pc' = [ atlas_pc EXCEPT !.at = "panic" ]
            /\ allocator' = allocator
       ELSE /\ allocator' = Grown(allocator)
            /\ atlas_pc' = atlas_pc
    /\ UNCHANGED << blocks, blocks_defer, block_models, meshgen_channel,
                    queue_consume, queue_produce, wpc, wpos, wblock, rpc,
                    vbuf_live, camera, draws, env, ticks, blocks_ver, ev,
                    mesh_args, buffer, nodes, textures,
                    map, nodedefs, media, flow, gfx_pc, map_builds,
                    readers, queue_lock, poisoned,
                    conn, net_events, events >>

---------------------------------------------------------------------------
(* update: the timeout path, the swap and the installation of the meshes.  *)

NoMesh == [ present |-> FALSE, num_vertices |-> 0 ]

\* a variant that makes a buffer for an empty vertex list too
BlockMeshNewAlways(n) == [ present |-> TRUE, num_vertices |-> n ]
\* BlockMesh::new: no buffer for an empty vertex list
BlockMeshNew(n) ==
    IF n = 0 THEN NoMesh ELSE [ present |-> TRUE, num_vertices |-> n ]

\* the BlockModel update() builds from a MeshData
BlockModelNew(data) ==
    [ mesh |-> BlockMeshNew(data.vertices),
      mesh_blend |-> BlockMeshNew(data.vertices_blend),
      ver |-> data.ver ]

\* the vertex buffers owned by the models of the coordinates S
Buffers(models, S) ==
    Cardinality({ pk \in S \X { "mesh", "mesh_blend" } :
                    models[pk[1]][pk[2]].present })

\* a variant that keeps the model already in the table (or_insert)
InstallModelsKeepOld(models, incoming) ==
    [ p \in DOMAIN models \cup DOMAIN incoming |->
        IF p \in DOMAIN models THEN models[p] ELSE BlockModelNew(incoming[p]) ]
\* block_models after `self.block_models.insert(pos, BlockModel {..})` for
\* every entry drained from queue_consume
InstallModels(models, incoming) ==
    [ p \in DOMAIN models \cup DOMAIN incoming |->
        IF p \in DOMAIN incoming THEN BlockModelNew(incoming[p]) ELSE models[p] ]

\* a variant that retains the replaced models
DroppedByInstallLeak(models, incoming) == 0
\* buffers dropped with the models HashMap::insert returns
DroppedByInstall(models, incoming) ==
    Buffers(models, DOMAIN models \cap DOMAIN incoming)

\* lines 195-200: drain_filter and send, in the map's iteration order
UpdateTimeout ==
    /\ rpc = "idle"
    /\ LET expired == { p \in DOMAIN blocks_defer : TimedOut(blocks_defer[p]) }
       IN  /\ meshgen_channel' = meshgen_channel \o SendInAnyOrder(expired)
           /\ blocks_defer' =
                [ p \in DOMAIN blocks_defer \ expired |-> blocks_defer[p] ]
           /\ ev' = [ op |-> "update", pos |-> NoPos,
                      sends |-> SendInAnyOrder(expired), dropped |-> 0 ]
    /\ rpc' = "swap"
    /\ UNCHANGED << blocks, block_models, queue_consume, queue_produce, wpc,
                    wpos, wblock, vbuf_live, camera, draws, env, ticks,
                    blocks_ver, mesh_args, buffer,
                    nodes, allocator, textures, atlas_pc,
                    map, nodedefs, media, flow, gfx_pc, map_builds,
                    readers, queue_lock, poisoned,
                    conn, net_events, events >>

\* lines 202-205: std::mem::swap under the mutex
UpdateSwap ==
    /\ rpc = "swap"
    /\ queue_produce' = queue_consume
    /\ queue_consume' = queue_produce
    /\ rpc' = "drain"
    /\ ev' = [ op |-> "swap", pos |-> NoPos, sends |-> << >>, dropped |-> 0 ]
    /\ UNCHANGED << blocks, blocks_defer, block_models, meshgen_channel, wpc,
                    wpos, wblock, vbuf_live, camera, draws, env, ticks,
                    blocks_ver, mesh_args, buffer,
                    nodes, allocator, textures, atlas_pc,
                    map, nodedefs, media, flow, gfx_pc, map_builds,
                    readers, queue_lock, poisoned,
                    conn, net_events, events >>

\* lines 207-222: queue_consume.drain() into block_models
UpdateInstall ==
    /\ rpc = "drain"
    /\ block_models' = InstallModels(block_models, queue_consume)
    /\ LET created == Buffers(InstallModels(EmptyMap, queue_consume),
                              DOMAIN queue_consume)
           dropped == DroppedByInstall(block_models, queue_consume)
       IN  /\ vbuf_live' = vbuf_live + created - dropped
           /\ ev' = [ op |-> "install", pos |-> NoPos, sends |-> << >>,
                      dropped |-> dropped ]
    /\ queue_consume' = EmptyMap
    /\ rpc' = "idle"
    /\ gfx_pc' = IF gfx_pc = "update" THEN "render" ELSE gfx_pc
    /\ UNCHANGED << blocks, blocks_defer, meshgen_channel, queue_produce, wpc,
                    wpos, wblock, camera, draws, env, ticks, blocks_ver,
                    mesh_args, buffer,
                    nodes, allocator, textures, atlas_pc,
                    map, nodedefs, media, flow, map_builds,
                    readers, queue_lock, poisoned,
                    conn, net_events, events >>

\* time passes between two operations of the render thread (inside update()
\* the clock is read only by the drain_filter pass, its first step)
Tick ==
    /\ rpc = "idle"
    /\ ticks < MaxTicks
    /\ \E d \in env.steps :
         /\ blocks_defer' =
              [ p \in DOMAIN blocks_defer |-> Older(blocks_defer[p], d) ]
         /\ blocks_defer' # blocks_defer
    /\ ticks' = ticks + 1
    /\ UNCHANGED << blocks, block_models, meshgen_channel, queue_consume,
                    queue_produce, wpc, wpos, wblock, rpc, vbuf_live, camera,
                    draws, env, blocks_ver, ev, mesh_args, buffer,
                    nodes, allocator, textures, atlas_pc,
                    map, nodedefs, media, flow, gfx_pc, map_builds,
                    readers, queue_lock, poisoned,
                    conn, net_events, events >>

---------------------------------------------------------------------------
(* The meshgen workers (the closure spawned by MapRender::new). *)

Workers == 1..NUM_WORKERS

NoSnapshot ==
    [ block |-> NoBlock, nbors |-> [ f \in Faces |-> NoBlock ], ver |-> 0 ]

\* the lookups made under the read lock, lines 464-475
Snapshot(pos) ==
    [ block |-> blocks[pos],
      nbors |-> [ f \in Faces |->
                    IF NborPos(pos, f) \in DOMAIN blocks
                    THEN blocks[NborPos(pos, f)] ELSE NoBlock ],
      ver |-> blocks_ver ]

\* the MeshData a worker publishes for its snapshot
MeshOf(snap) ==
    LET data == CreateMesh(snap.block, snap.nbors)
    IN  [ vertices |-> data.vertices,
          vertices_blend |-> data.vertices_blend,
          ver |-> snap.ver ]

\* line 461: input.recv()
WorkerRecv(w) ==
    /\ wpc[w] = "recv"
    /\ meshgen_channel # << >>
    /\ \E p \in Head(meshgen_channel) :
         /\ wpos' = [ wpos EXCEPT ![w] = p ]
         /\ meshgen_channel' = AfterRecv(meshgen_channel, p)
    /\ wpc' = [ wpc EXCEPT ![w] = "read" ]
    /\ UNCHANGED << blocks, blocks_defer, block_models, queue_consume,
                    queue_produce, wblock, rpc, vbuf_live, camera, draws, env,
                    ticks, blocks_ver, ev, mesh_args, buffer,
                    nodes, allocator, textures, atlas_pc,
                    map, nodedefs, media, flow, gfx_pc, map_builds,
                    readers, queue_lock, poisoned,
                    conn, net_events, events >>

\* lines 464-475: the centre and its neighbours, read under one read lock
WorkerRead(w) ==
    /\ wpc[w] = "read"
    /\ IF wpos[w] \in DOMAIN blocks
       THEN /\ wblock' = [ wblock EXCEPT ![w] = Snapshot(wpos[w]) ]
            /\ wpc' = [ wpc EXCEPT ![w] = "mesh" ]
            /\ wpos' = wpos
       ELSE /\ wpc' = [ wpc EXCEPT ![w] = "recv" ]
            /\ wpos' = [ wpos EXCEPT ![w] = NoPos ]
            /\ wblock' = wblock
    /\ UNCHANGED << blocks, blocks_defer, block_models, meshgen_channel,
                    queue_consume, queue_produce, rpc, vbuf_live, camera,
                    draws, env, ticks, blocks_ver, ev, mesh_args, buffer,
                    nodes, allocator, textures, atlas_pc,
                    map, nodedefs, media, flow, gfx_pc, map_builds,
                    readers, queue_lock, poisoned,
                    conn, net_events, events >>

\* lines 477-490: create_mesh without a lock, then the insert under the mutex
WorkerPublish(w) ==
    /\ wpc[w] = "mesh"
    /\ queue_produce' = MapInsert(queue_produce, wpos[w], MeshOf(wblock[w]))
    /\ wpc' = [ wpc EXCEPT ![w] = "recv" ]
    /\ wpos' = [ wpos EXCEPT ![w] = NoPos ]
    /\ wblock' = [ wblock EXCEPT ![w] = NoSnapshot ]
    /\ UNCHANGED << blocks, blocks_defer, block_models, meshgen_channel,
                    queue_consume, rpc, vbuf_live, camera, draws, env, ticks,
                    blocks_ver, ev, mesh_args, buffer,
                    nodes, allocator, textures, atlas_pc,
                    map, nodedefs, media, flow, gfx_pc, map_builds,
                    readers, queue_lock, poisoned,
                    conn, net_events, events >>

---------------------------------------------------------------------------
(* render.  Lengths are in half voxels, so that the corners and the centre *)
(* the program uses (fpos - 0.5, fpos + 15.5, fpos + 8.5) are integers.    *)
(* The camera looks along the world's x axis, forwards or backwards; the   *)
(* view transform is rigid, so the box stays axis-aligned in view space    *)
(* and the length of a transformed point is its distance from the camera.  *)
(* The frustum is the one of update_projection for a square window: 90     *)
(* degrees, near 0.1, far 100000.                                          *)

\* block_float_pos(pos), in half voxels
BlockFloatPos(pos) == [ i \in 1..3 |-> 32 * pos[i] ]

\* (fpos - one * 0.5, fpos + one * 15.5) before the view transform
Aabb(pos) ==
    [ min |-> [ i \in 1..3 |-> BlockFloatPos(pos)[i] - 1 ],
      max |-> [ i \in 1..3 |-> BlockFloatPos(pos)[i] + 31 ] ]

\* the interval of the box along the camera's forward axis
DepthRange(cam, pos) ==
    LET lo == Aabb(pos).min[1] - cam.pos[1]
        hi == Aabb(pos).max[1] - cam.pos[1]
    IN  IF cam.look = 1 THEN [ min |-> lo, max |-> hi ]
        ELSE [ min |-> -hi, max |-> -lo ]

\* the interval of the box along a sideways axis of the camera (2: up, 3:
\* right, up to the sign, which the symmetric frustum does not tell apart)
SideRange(cam, pos, i) ==
    [ min |-> Aabb(pos).min[i] - cam.pos[i],
      max |-> Aabb(pos).max[i] - cam.pos[i] ]

\* state.frustum.contains(&aabb) == Relation::Out: the box lies wholly
\* behind one of the planes (the far plane is out of the world's reach)
FrustumOut(cam, pos) ==
    LET d == DepthRange(cam, pos)
    IN  \/ d.max <= 0
        \/ \E i \in 2..3 :
             \/ SideRange(cam, pos, i).min - d.max > 0
             \/ - SideRange(cam, pos, i).max - d.max > 0

\* the square of (state.view * (fpos + one * 8.5)).magnitude(): the order
\* of the distances is the order of their squares
DistSq(cam, pos) ==
    LET r == [ i \in 1..3 |-> BlockFloatPos(pos)[i] + 17 - cam.pos[i] ]
    IN  r[1] * r[1] + r[2] * r[2] + r[3] * r[3]

\* a variant without the then_with tie-break
BlendCmpDistOnly(a, b) ==
    IF a.dist < b.dist THEN -1
    ELSE IF a.dist > b.dist THEN 1
    ELSE 0
\* the comparator of sort_unstable_by: -1 for Less, 0 for Equal, 1 for
\* Greater (no distance of the model is a NaN)
BlendCmp(a, b) ==
    IF a.dist < b.dist THEN -1
    ELSE IF a.dist > b.dist THEN 1
    ELSE IF a.index < b.index THEN -1
    ELSE IF a.index > b.index THEN 1
    ELSE 0

\* the sequences that enumerate the set S
Perms(S) ==
    { s \in [ 1..Cardinality(S) -> S ] : \A x \in S : \E i \in DOMAIN s : s[i] = x }

\* the results an unstable sort of the entries E may return: any order of
\* them in which no entry comes before one the comparator puts first
SortUnstable(E) ==
    { s \in Perms(E) :
        \A i, j \in DOMAIN s : i < j => BlendCmp(s[i], s[j]) <= 0 }

\* a variant without the frustum test
SurvivesNoCull(cam, models, pos) ==
    models[pos].mesh.present \/ models[pos].mesh_blend.present
\* line 154 and lines 160-164: the entries of the table that are drawn
Survives(cam, models, pos) ==
    /\ models[pos].mesh.present \/ models[pos].mesh_blend.present
    /\ ~FrustumOut(cam, pos)

\* the draw call of one partition
DrawCall(part, pos, models, cam, index) ==
    [ part |-> part, pos |-> pos, index |-> index, dist |-> DistSq(cam, pos),
      num_vertices |-> models[pos][part].num_vertices ]

\* the opaque draw calls of the first loop, for the iteration order `order`
RECURSIVE OpaqueDraws(_, _, _, _)
OpaqueDraws(order, i, models, cam) ==
    IF i > Len(order) THEN << >>
    ELSE LET pos == order[i]
             rest == OpaqueDraws(order, i + 1, models, cam)
         IN  IF Survives(cam, models, pos) /\ models[pos].mesh.present
             THEN << DrawCall("mesh", pos, models, cam, i - 1) >> \o rest
             ELSE rest

\* the entries pushed to `blend`; index is the enumerate() index
BlendEntries(order, models, cam) ==
    { DrawCall("mesh_blend", order[i], models, cam, i - 1) :
        i \in { k \in DOMAIN order :
                  /\ Survives(cam, models, order[k])
                  /\ models[order[k]].mesh_blend.present } }

\* a variant that draws the blend list first
DrawOrderBlendFirst(opaque, blend) == blend \o opaque
\* the draw calls of one pass: those of the first loop (lines 153-180),
\* then those of the loop over the sorted blend list (lines 189-191)
DrawOrder(opaque, blend) == opaque \o blend

\* the chunks of the table the frustum test of this frame rejects
CulledNow == { p \in DOMAIN block_models : FrustumOut(camera, p) }

\* history: the chunks the last frame before this one rejected
CulledBefore == IF ev.op \in { "render", "camera" } THEN ev.culled ELSE {}

\* MapRender::render: the opaque partitions in the table's iteration order,
\* which the program does not determine, then the sorted blend list
Render ==
    /\ rpc = "idle"
    /\ \E order \in Perms(DOMAIN block_models) :
         \E sorted \in SortUnstable(BlendEntries(order, block_models, camera)) :
            draws' = DrawOrder(OpaqueDraws(order, 1, block_models, camera),
                               sorted)
    /\ ev' = [ op |-> "render", pos |-> NoPos, sends |-> << >>, dropped |-> 0,
               culled |-> CulledNow, before |-> CulledBefore ]
    /\ gfx_pc' = IF gfx_pc = "render" THEN "events" ELSE gfx_pc
    /\ UNCHANGED << blocks, blocks_defer, block_models, meshgen_channel,
                    queue_consume, queue_produce, wpc, wpos, wblock, rpc,
                    vbuf_live, camera, env, ticks, blocks_ver,
                    mesh_args, buffer,
                    nodes, allocator, textures, atlas_pc,
                    map, nodedefs, media, flow, map_builds,
                    readers, queue_lock, poisoned,
                    conn, net_events, events >>

\* State::update between two frames: the camera moves or turns
MoveCamera ==
    /\ rpc = "idle"
    /\ camera' \in env.cameras \ { camera }
    /\ ev' = [ op |-> "camera", pos |-> NoPos, sends |-> << >>, dropped |-> 0,
               culled |-> CulledBefore, before |-> {} ]
    /\ UNCHANGED << blocks, blocks_defer, block_models, meshgen_channel,
                    queue_consume, queue_produce, wpc, wpos, wblock, rpc,
                    vbuf_live, draws, env, ticks, blocks_ver,
                    mesh_args, buffer,
                    nodes, allocator, textures, atlas_pc,
                    map, nodedefs, media, flow, gfx_pc, map_builds,
                    readers, queue_lock, poisoned,
                    conn, net_events, events >>

---------------------------------------------------------------------------
(* The specifications. *)

NoCamera == [ pos |-> Origin, look |-> 0 ]

\* the state MapRender::new returns
InitMap ==
    /\ blocks = EmptyMap
    /\ blocks_defer = EmptyMap
    /\ block_models = EmptyMap
    /\ meshgen_channel = << >>
    /\ queue_consume = EmptyMap
    /\ queue_produce = EmptyMap
    /\ wpc = [ w \in Workers |-> "recv" ]
    /\ wpos = [ w \in Workers |-> NoPos ]
    /\ wblock = [ w \in Workers |-> NoSnapshot ]
    /\ rpc = "idle"
    /\ vbuf_live = 0
    /\ camera = NoCamera
    /\ draws = << >>
    /\ ticks = 0
    /\ blocks_ver = 0
    /\ ev = [ op |-> "new", pos |-> NoPos, sends |-> << >>, dropped |-> 0 ]
    /\ buffer = EmptyBuffer
    /\ allocator = NewAllocator
    /\ textures = << >>

\* no worker: the holder of a free mutex
NoWorker == 0

\* the locks of a new MapRender: the RwLock of blocks and the Mutex of
\* queue_produce, both free and not poisoned
NoLocks ==
    /\ readers = {}
    /\ queue_lock = NoWorker
    /\ poisoned = {}

\* the packets of net.rs that the model counts
SentPkts ==
    { "Init", "FirstSrp", "SrpBytesA", "SrpBytesM", "Init2", "CltReady" }

\* net.rs lines 43-53: the Conn that run() builds, with what it has sent
\* (tx), the blocks it has acknowledged with GotBlocks (acked), the server
\* packets it has handled (rx) and whether the task is still in its loop
NewConn ==
    [ auth |-> "Init", send_pos_iv |-> FALSE, running |-> TRUE, rx |-> 0,
      tx |-> [ p \in SentPkts |-> 0 ], acked |-> {} ]

\* the network task before any packet, and both event channels empty
NoTraffic ==
    /\ conn = NewConn
    /\ net_events = << >>
    /\ events = << >>

\* Option<HashMap<u16, NodeDef>>: None, or Some of a node table
NoNodeDefs == [ some |-> FALSE, defs |-> << >> ]

\* MapRender::new has run on a table without nodes and the event loop
\* waits for events
NoAtlas ==
    /\ nodes = << >>
    /\ atlas_pc = [ AtlasStart EXCEPT !.at = "done" ]
    /\ map = "Some"
    /\ nodedefs = NoNodeDefs
    /\ media = {}
    /\ flow = "Poll"
    /\ gfx_pc = "events"
    /\ map_builds = 1
    /\ NoLocks
    /\ NoTraffic

Init ==
    /\ InitMap
    /\ NoAtlas
    /\ mesh_args = NoMeshArgs
    /\ env = [ world |-> PairWorld, contents |-> Contents,
               budget |-> MaxSysDeliveries, steps |-> TickSteps ]

InitTracker ==
    /\ InitMap
    /\ NoAtlas
    /\ mesh_args = NoMeshArgs
    /\ env = [ world |-> CrossWorld, contents |-> { "stone" },
               budget |-> MaxDeliveries, steps |-> CoarseTickSteps ]

\* a payload of mixed contents, which no step of SpecRender reads
SomeBlock == "mixed"

\* the chunks of the render model tables of SpecRender
RenderWorld ==
    { Origin, NborPos(Origin, 2), NborPos(NborPos(Origin, 2), 0),
      NborPos(NborPos(Origin, 2), 1) }

\* the render models update() can install
RenderModels ==
    { BlockModelNew([ vertices |-> v, vertices_blend |-> b, ver |-> 0 ]) :
        v \in { 0, FACE_VERTICES }, b \in { 0, FACE_VERTICES } }

\* camera positions (in half voxels) and look directions
Cameras ==
    { [ pos |-> p, look |-> l ] :
        p \in { << 17, 17, 17 >>, << -47, 17, 17 >> }, l \in { 1, -1 } }

\* the chunks and the cameras of SpecFrames: from the third camera the
\* chunk below the row is outside the frustum and the other two are not
FrameWorld == RenderWorld \ { Origin }

FrameCameras ==
    { [ pos |-> << 17, 17, 17 >>, look |-> 1 ],
      [ pos |-> << 17, 17, 17 >>, look |-> -1 ],
      [ pos |-> << 17, 49, 17 >>, look |-> 1 ] }

\* a map renderer with some render models installed and no work pending
InitRenderOver(world, cams) ==
    /\ \E S \in SUBSET world : block_models \in [ S -> RenderModels ]
    /\ blocks = [ p \in DOMAIN block_models |-> SomeBlock ]
    /\ blocks_defer = EmptyMap
    /\ meshgen_channel = << >>
    /\ queue_consume = EmptyMap
    /\ queue_produce = EmptyMap
    /\ wpc = [ w \in Workers |-> "recv" ]
    /\ wpos = [ w \in Workers |-> NoPos ]
    /\ wblock = [ w \in Workers |-> NoSnapshot ]
    /\ rpc = "idle"
    /\ vbuf_live = Buffers(block_models, DOMAIN block_models)
    /\ camera \in cams
    /\ draws = << >>
    /\ ticks = 0
    /\ blocks_ver = 0
    /\ ev = [ op |-> "new", pos |-> NoPos, sends |-> << >>, dropped |-> 0 ]
    /\ mesh_args = NoMeshArgs
    /\ buffer = EmptyBuffer
    /\ allocator = NewAllocator
    /\ textures = << >>
    /\ NoAtlas
    /\ env = [ world |-> world, contents |-> {}, budget |-> 0,
               steps |-> {}, cameras |-> cams ]

InitRender == InitRenderOver(RenderWorld, Cameras)

InitFrames == InitRenderOver(FrameWorld, FrameCameras)

Deliver ==
    /\ \E pos \in env.world, block \in env.contents : AddBlock(pos, block)
    /\ UNCHANGED events

Next ==
    \/ Deliver
    \/ UpdateTimeout
    \/ UpdateSwap
    \/ UpdateInstall
    \/ Tick
    \/ \E w \in Workers : WorkerRecv(w)
    \/ \E w \in Workers : WorkerRead(w)
    \/ \E w \in Workers : WorkerPublish(w)

NextTracker ==
    \/ Deliver
    \/ UpdateTimeout
    \/ UpdateSwap
    \/ UpdateInstall
    \/ Tick

Spec == Init /\ [][Next]_vars

SpecTracker == InitTracker /\ [][NextTracker]_vars

NextRender == Render

SpecRender == InitRender /\ [][NextRender]_vars

NextFrames ==
    \/ Render
    \/ MoveCamera

SpecFrames == InitFrames /\ [][NextFrames]_vars

\* a voxel inside the chunk, away from its borders
InnerVoxel == VoxelIndex([ i \in 0..2 |-> 5 ])

\* the voxel of the chunk's border on the side of face f, and the voxel of
\* the neighbour chunk that touches it
BorderVoxel(f) ==
    VoxelIndex([ i \in 0..2 |->
                   IF i # FaceAxis(f) THEN 5
                   ELSE IF FACE_DIR[f][i + 1] = 1 THEN 15 ELSE 0 ])

TouchingVoxel(f) ==
    VoxelIndex([ i \in 0..2 |->
                   IF i # FaceAxis(f) THEN 5
                   ELSE IF FACE_DIR[f][i + 1] = 1 THEN 0 ELSE 15 ])

\* chunks of one content
UniformChunk(c) == [ fill |-> c, at |-> 0, is |-> c ]

\* the arguments of the create_mesh calls examined: a chunk of any content
\* with one voxel of any content inside it; a chunk of air with one voxel on
\* a border, whose neighbour chunk on that side is absent or is air but for
\* the touching voxel; a chunk of one content between neighbours of one
\* content
MeshInputs ==
    { [ block |-> [ fill |-> a, at |-> InnerVoxel, is |-> b ],
        nbors |-> [ f \in Faces |-> NoVoxels ], returned |-> FALSE ] :
        a \in VoxelContents, b \in VoxelContents }
    \cup
    { [ block |-> [ fill |-> "air", at |-> BorderVoxel(g), is |-> b ],
        nbors |-> [ f \in Faces |->
                      IF f = g /\ d # NoBlock
                      THEN [ fill |-> "air", at |-> TouchingVoxel(g), is |-> d ]
                      ELSE NoVoxels ],
        returned |-> FALSE ] :
        g \in Faces, b \in { "stone", "water", "lava", "glass" },
        d \in { "stone", "dirt", "water", "air", "ignore", NoBlock } }
    \cup
    { [ block |-> UniformChunk(a),
        nbors |-> [ f \in Faces |->
                      IF d = NoBlock THEN NoVoxels ELSE UniformChunk(d) ],
        returned |-> FALSE ] :
        a \in Contents, d \in Contents \cup { NoBlock } }

\* a worker about to mesh one of the snapshots
InitMesh ==
    /\ InitMap
    /\ NoAtlas
    /\ env = [ world |-> {}, contents |-> {}, budget |-> 0, steps |-> {} ]
    /\ mesh_args \in MeshInputs

NextMesh == MeshChunk

SpecMesh == InitMesh /\ [][NextMesh]_vars

\* the tiles of the tables examined: textures that decode, one that is
\* missing, one that does not decode, one with an overlay that is missing,
\* and two with a vertical-frame animation
AtlasTiles ==
    { [ name |-> name, animation |-> NoAnim, custom |-> NoSlot ] :
        name \in { << "a.png" >>, << "b.png" >>, << "missing.png" >>,
                   << "bad.png" >>, << "a.png", "missing.png" >> } }
    \cup
    { [ name |-> << "a.png" >>, animation |-> VerticalFrame(2, 1),
        custom |-> NoSlot ],
      [ name |-> << "missing.png" >>, animation |-> VerticalFrame(2, 1),
        custom |-> NoSlot ] }

\* the lists of 1 to n elements of S
ListsUpTo(S, n) == UNION { [ 1..k -> S ] : k \in 1..n }

\* create_atlas about to start on a table
InitAtlas ==
    /\ InitMap
    /\ mesh_args = NoMeshArgs
    /\ env = [ world |-> {}, contents |-> {}, budget |-> 0, steps |-> {} ]
    /\ \E k \in 1..MaxNodes : nodes \in [ 1..k -> ListsUpTo(AtlasTiles, MaxTiles) ]
    /\ atlas_pc = AtlasStart
    /\ map = "None"
    /\ nodedefs = NoNodeDefs
    /\ media = MediaFiles
    /\ flow = "Poll"
    /\ gfx_pc = "build"
    /\ map_builds = 0
    /\ NoLocks
    /\ NoTraffic

NextAtlas ==
    \/ AtlasNode
    \/ AtlasTile
    \/ AtlasAllocate
    \/ AtlasGrow

SpecAtlas == InitAtlas /\ [][NextAtlas]_vars

---------------------------------------------------------------------------
(* run: the event loop of gfx.rs.  MapRender::new runs inside the handler  *)
(* of the final media batch: the handler starts create_atlas, whose steps  *)
(* follow, and GfxMapBuilt is the rest of it.  The handler of              *)
(* RedrawRequested is GfxRedraw, the three steps of update() when there is *)
(* a map, and the attempt to render.  No key or mouse input is pending, so *)
(* camera.update leaves the camera where it is.                            *)

\* the node tables the server may send
GfxTables ==
    { << >>,
      << << [ name |-> << "a.png" >>, animation |-> NoAnim, custom |-> NoSlot ] >> >> }

\* the results of Frame::new: the frame, or a wgpu::SurfaceError
FrameErrors == { "Timeout", "Outdated", "Lost", "OutOfMemory" }

\* an operation of the event loop, as `ev` records it
GfxOp(op, pos) == [ op |-> op, pos |-> pos, sends |-> << >>, dropped |-> 0 ]

\* line 177: NodeDefs(defs)
HandleNodeDefs(defs) ==
    /\ gfx_pc = "events"
    /\ flow = "Poll"
    /\ nodedefs' = [ some |-> TRUE, defs |-> defs ]
    /\ ev' = GfxOp("nodedefs", NoPos)
    /\ UNCHANGED << blocks, blocks_defer, block_models, meshgen_channel,
                    queue_consume, queue_produce, wpc, wpos, wblock, rpc,
                    vbuf_live, camera, draws, env, ticks, blocks_ver,
                    mesh_args, buffer, nodes, allocator, textures, atlas_pc,
                    map, media, flow, gfx_pc, map_builds,
                    readers, queue_lock, poisoned,
                    conn, net_events >>

GfxNodeDefs ==
    /\ \E defs \in GfxTables : HandleNodeDefs(defs)
    /\ UNCHANGED events

\* line 186: `if finished`
FinalBatchBuilds(finished) == finished

\* lines 183-192: Media(files, finished), up to the call of create_atlas
\* in MapRender::new
HandleMedia(files, finished) ==
    /\ gfx_pc = "events"
    /\ flow = "Poll"
    /\ media' = media \cup files
    /\ ev' = GfxOp(IF finished THEN "media_final" ELSE "media", NoPos)
    /\ IF FinalBatchBuilds(finished)
       THEN /\ map_builds < MaxBuilds
            /\ nodes' = IF nodedefs.some THEN nodedefs.defs ELSE << >>
            /\ nodedefs' = NoNodeDefs
            /\ allocator' = NewAllocator
            /\ textures' = << >>
            /\ atlas_pc' = AtlasStart
            /\ gfx_pc' = "build"
       ELSE UNCHANGED << nodes, nodedefs, allocator, textures, atlas_pc,
                         gfx_pc >>
    /\ UNCHANGED << blocks, blocks_defer, block_models, meshgen_channel,
                    queue_consume, queue_produce, wpc, wpos, wblock, rpc,
                    vbuf_live, camera, draws, env, ticks, blocks_ver,
                    mesh_args, buffer, map, flow, map_builds,
                    readers, queue_lock, poisoned,
                    conn, net_events >>

\* the batches the server may send
MediaBatches == SUBSET { "a.png" }

GfxMedia ==
    /\ \E files \in MediaBatches, finished \in BOOLEAN :
         HandleMedia(files, finished)
    /\ UNCHANGED events

\* a variant that sends nothing
ReadyAfterBuildNone(q) == q
\* line 193: net_events.send(NetEvent::Ready)
ReadyAfterBuild(q) == Append(q, "Ready")

\* lines 187-194 and map.rs lines 283-507: the rest of MapRender::new, the
\* assignment to `map`, which drops the map renderer there was, and the
\* Ready sent to the network task
GfxMapBuilt ==
    /\ gfx_pc = "build"
    /\ atlas_pc.at = "done"
    /\ map' = "Some"
    /\ map_builds' = map_builds + 1
    /\ gfx_pc' = "events"
    /\ blocks' = EmptyMap
    /\ blocks_defer' = EmptyMap
    /\ block_models' = EmptyMap
    /\ meshgen_channel' = << >>
    /\ queue_consume' = EmptyMap
    /\ queue_produce' = EmptyMap
    /\ wpc' = [ w \in Workers |-> "recv" ]
    /\ wpos' = [ w \in Workers |-> NoPos ]
    /\ wblock' = [ w \in Workers |-> NoSnapshot ]
    /\ vbuf_live' = 0
    /\ ev' = GfxOp("new", NoPos)
    /\ net_events' = ReadyAfterBuild(net_events)
    /\ UNCHANGED << rpc, camera, draws, env, ticks, blocks_ver, mesh_args,
                    buffer, nodes, allocator, textures, atlas_pc, nodedefs,
                    media, flow,
                    readers, queue_lock, poisoned,
                    conn, events >>

\* lines 178-182: MapBlock(pos, blk), dropped while there is no map
HandleMapBlock(pos, block) ==
    /\ gfx_pc = "events"
    /\ flow = "Poll"
    /\ IF map = "Some"
       THEN AddBlock(pos, block)
       ELSE /\ ev' = GfxOp("dropped", pos)
            /\ UNCHANGED << blocks, blocks_defer, block_models,
                            meshgen_channel, queue_consume, queue_produce,
                            wpc, wpos, wblock, rpc, vbuf_live, camera,
                            draws, env, ticks, blocks_ver, mesh_args,
                            buffer, nodes, allocator, textures, atlas_pc,
                            map, nodedefs, media, flow, gfx_pc, map_builds,
                            readers, queue_lock, poisoned,
                            conn, net_events >>

GfxMapBlock ==
    /\ \E pos \in env.world, block \in env.contents :
         HandleMapBlock(pos, block)
    /\ UNCHANGED events

\* lines 59-68: RedrawRequested, up to the call of map.update
GfxRedraw ==
    /\ gfx_pc = "events"
    /\ flow = "Poll"
    /\ rpc = "idle"
    /\ gfx_pc' = IF map = "Some" THEN "update" ELSE "render"
    /\ ev' = GfxOp("redraw", NoPos)
    /\ UNCHANGED << blocks, blocks_defer, block_models, meshgen_channel,
                    queue_consume, queue_produce, wpc, wpos, wblock, rpc,
                    vbuf_live, camera, draws, env, ticks, blocks_ver,
                    mesh_args, buffer, nodes, allocator, textures, atlas_pc,
                    map, nodedefs, media, flow, map_builds,
                    readers, queue_lock, poisoned,
                    conn, net_events, events >>

\* line 67: map.update
GfxUpdate ==
    /\ gfx_pc = "update"
    /\ \/ UpdateTimeout
       \/ UpdateSwap
       \/ UpdateInstall

\* a variant that exits on every frame error
FlowAfterAlwaysExit(flw, err) == "Exit"
\* lines 95-100: the control flow after a frame error
FlowAfter(flw, err) == IF err = "OutOfMemory" THEN "Exit" ELSE flw

\* lines 74-100: the attempt to render.  Frame::new gives the frame, and
\* the map is drawn if there is one, or it gives an error, which ends the
\* closure before anything is drawn
GfxRender ==
    /\ gfx_pc = "render"
    /\ \/ map = "Some" /\ Render
       \/ /\ map = "None"
          /\ gfx_pc' = "events"
          /\ ev' = GfxOp("frame", NoPos)
          /\ UNCHANGED << blocks, blocks_defer, block_models, meshgen_channel,
                          queue_consume, queue_produce, wpc, wpos, wblock,
                          rpc, vbuf_live, camera, draws, env, ticks,
                          blocks_ver, mesh_args, buffer, nodes, allocator,
                          textures, atlas_pc, map, nodedefs, media, flow,
                          map_builds,
                          readers, queue_lock, poisoned,
                          conn, net_events, events >>
       \/ \E err \in FrameErrors :
            /\ gfx_pc' = "events"
            /\ flow' = FlowAfter(flow, err)
            /\ ev' = [ op |-> "frame_error", pos |-> NoPos, sends |-> << >>,
                       dropped |-> 0, error |-> err,
                       configured |-> (err = "Lost") ]
            /\ UNCHANGED << blocks, blocks_defer, block_models,
                            meshgen_channel, queue_consume, queue_produce,
                            wpc, wpos, wblock, rpc, vbuf_live, camera, draws,
                            env, ticks, blocks_ver, mesh_args, buffer, nodes,
                            allocator, textures, atlas_pc, map, nodedefs,
                            media, map_builds,
                            readers, queue_lock, poisoned,
                            conn, net_events, events >>

\* the event loop before any event
InitGfx ==
    /\ InitMap
    /\ mesh_args = NoMeshArgs
    /\ env = [ world |-> PairWorld, contents |-> { "stone" },
               budget |-> MaxGfxDeliveries, steps |-> CoarseTickSteps ]
    /\ nodes = << >>
    /\ atlas_pc = [ AtlasStart EXCEPT !.at = "done" ]
    /\ map = "None"
    /\ nodedefs = NoNodeDefs
    /\ media = {}
    /\ flow = "Poll"
    /\ gfx_pc = "events"
    /\ map_builds = 0
    /\ NoLocks
    /\ NoTraffic

NextGfx ==
    \/ GfxNodeDefs
    \/ GfxMedia
    \/ AtlasNode
    \/ AtlasTile
    \/ AtlasAllocate
    \/ AtlasGrow
    \/ GfxMapBuilt
    \/ GfxMapBlock
    \/ GfxRedraw
    \/ GfxUpdate
    \/ GfxRender
    \/ gfx_pc = "events" /\ Tick
    \/ \E w \in Workers : WorkerRecv(w) \/ WorkerRead(w) \/ WorkerPublish(w)

SpecGfx == InitGfx /\ [][NextGfx]_vars

---------------------------------------------------------------------------
(* The locks.  `blocks` is behind an RwLock and `queue_produce` behind a   *)
(* Mutex.  The worker closure is taken statement by statement here, so     *)
(* that the statements between the taking and the dropping of a guard are  *)
(* steps of their own.  The render thread takes the write lock and the     *)
(* read lock inside add_block and the mutex inside the swap of update(),   *)
(* each within one step: it waits while a worker holds a guard in its way. *)

\* a variant that keeps the read guard until the end of the iteration
ReadersAfterLookupKept(w) == readers
\* line 475, and the end of the iteration at `continue`: drop(blocks)
ReadersAfterLookup(w) == readers \ {w}

\* line 464: blocks.read().unwrap()
WorkerAcquireRead(w) ==
    /\ wpc[w] = "read"
    /\ "blocks" \notin poisoned
    /\ readers' = readers \cup {w}
    /\ wpc' = [ wpc EXCEPT ![w] = "lookup" ]
    /\ UNCHANGED << blocks, blocks_defer, block_models, meshgen_channel,
                    queue_consume, queue_produce, wpos, wblock, rpc,
                    vbuf_live, camera, draws, env, ticks, blocks_ver, ev,
                    mesh_args, buffer, nodes, allocator, textures, atlas_pc,
                    map, nodedefs, media, flow, gfx_pc, map_builds,
                    queue_lock, poisoned,
                    conn, net_events, events >>

\* a variant that publishes the empty MeshData for a missing centre
ProduceAfterMissingEmpty(w) ==
    MapInsert(queue_produce, wpos[w],
              [ vertices |-> 0, vertices_blend |-> 0, ver |-> blocks_ver ])
\* lines 466-469: `None => continue` leaves the produce map alone
ProduceAfterMissing(w) == queue_produce

\* lines 466-475: the centre, `continue` without it, the neighbours, and
\* the drop of the read guard
WorkerLookup(w) ==
    /\ wpc[w] = "lookup"
    /\ IF wpos[w] \in DOMAIN blocks
       THEN /\ wblock' = [ wblock EXCEPT ![w] = Snapshot(wpos[w]) ]
            /\ wpc' = [ wpc EXCEPT ![w] = "mesh" ]
            /\ wpos' = wpos
            /\ readers' = ReadersAfterLookup(w)
            /\ queue_produce' = queue_produce
       ELSE /\ wpc' = [ wpc EXCEPT ![w] = "recv" ]
            /\ wpos' = [ wpos EXCEPT ![w] = NoPos ]
            /\ wblock' = wblock
            /\ readers' = readers \ {w}
            /\ queue_produce' = ProduceAfterMissing(w)
    /\ UNCHANGED << blocks, blocks_defer, block_models, meshgen_channel,
                    queue_consume, rpc, vbuf_live, camera,
                    draws, env, ticks, blocks_ver, ev, mesh_args, buffer,
                    nodes, allocator, textures, atlas_pc, map, nodedefs,
                    media, flow, gfx_pc, map_builds, queue_lock, poisoned,
                    conn, net_events, events >>

\* lines 477-488: create_mesh returns
WorkerMesh(w) ==
    /\ wpc[w] = "mesh"
    /\ wpc' = [ wpc EXCEPT ![w] = "insert" ]
    /\ UNCHANGED << blocks, blocks_defer, block_models, meshgen_channel,
                    queue_consume, queue_produce, wpos, wblock, rpc,
                    vbuf_live, camera, draws, env, ticks, blocks_ver, ev,
                    mesh_args, buffer, nodes, allocator, textures, atlas_pc,
                    map, nodedefs, media, flow, gfx_pc, map_builds,
                    readers, queue_lock, poisoned,
                    conn, net_events, events >>

\* a variant in which the channel is closed to the other receivers when
\* one of them is dropped
ChannelAfterPanicClosed(w) == << >>
\* the channel after the thread of worker w has ended: the other clones of
\* the receiver keep it open
ChannelAfterPanic(w) == meshgen_channel

\* lines 477-484: create_mesh panics.  The unwinding drops what the thread
\* holds; a mutex whose guard is dropped by a panic is poisoned, a read
\* guard of an RwLock poisons nothing.  As history, `ver` of the ended
\* worker keeps the number of inserts made when it ended
WorkerPanic(w) ==
    /\ wpc[w] = "mesh"
    /\ wpc' = [ wpc EXCEPT ![w] = "dead" ]
    /\ wblock' = [ wblock EXCEPT ![w] = [ NoSnapshot EXCEPT !.ver = blocks_ver ] ]
    /\ readers' = readers \ {w}
    /\ queue_lock' = IF queue_lock = w THEN NoWorker ELSE queue_lock
    /\ poisoned' = IF queue_lock = w
                   THEN poisoned \cup { "queue_produce" } ELSE poisoned
    /\ meshgen_channel' = ChannelAfterPanic(w)
    /\ UNCHANGED << blocks, blocks_defer, block_models, queue_consume,
                    queue_produce, wpos, rpc, vbuf_live, camera, draws, env,
                    ticks, blocks_ver, ev, mesh_args, buffer, nodes,
                    allocator, textures, atlas_pc, map, nodedefs, media,
                    flow, gfx_pc, map_builds,
                    conn, net_events, events >>

\* line 490: output.lock().unwrap()
WorkerAcquireQueue(w) ==
    /\ wpc[w] = "insert"
    /\ queue_lock = NoWorker
    /\ "queue_produce" \notin poisoned
    /\ queue_lock' = w
    /\ wpc' = [ wpc EXCEPT ![w] = "locked" ]
    /\ UNCHANGED << blocks, blocks_defer, block_models, meshgen_channel,
                    queue_consume, queue_produce, wpos, wblock, rpc,
                    vbuf_live, camera, draws, env, ticks, blocks_ver, ev,
                    mesh_args, buffer, nodes, allocator, textures, atlas_pc,
                    map, nodedefs, media, flow, gfx_pc, map_builds,
                    readers, poisoned,
                    conn, net_events, events >>

\* a variant that leaves the mutex locked after the insert
QueueLockAfterInsertKept(w) == queue_lock
\* line 490: the guard is a temporary, dropped at the end of the statement
QueueLockAfterInsert(w) == NoWorker

\* line 490: insert(pos, data), and the drop of the guard at the end of
\* the statement
WorkerInsert(w) ==
    /\ wpc[w] = "locked"
    /\ queue_produce' = MapInsert(queue_produce, wpos[w], MeshOf(wblock[w]))
    /\ queue_lock' = QueueLockAfterInsert(w)
    /\ wpc' = [ wpc EXCEPT ![w] = "recv" ]
    /\ wpos' = [ wpos EXCEPT ![w] = NoPos ]
    /\ wblock' = [ wblock EXCEPT ![w] = NoSnapshot ]
    /\ UNCHANGED << blocks, blocks_defer, block_models, meshgen_channel,
                    queue_consume, rpc, vbuf_live, camera, draws, env, ticks,
                    blocks_ver, ev, mesh_args, buffer, nodes, allocator,
                    textures, atlas_pc, map, nodedefs, media, flow, gfx_pc,
                    map_builds, readers, poisoned,
                    conn, net_events, events >>

\* a variant in which the insert does not wait for the readers
WriteLockNotAwaited == "blocks" \notin poisoned
\* add_block can take the write lock of line 226: no read guard is out
WriteLockFree == readers = {} /\ "blocks" \notin poisoned

\* update() can take the mutex of line 203
QueueLockFree == queue_lock = NoWorker /\ "queue_produce" \notin poisoned

\* add_block, which waits for the write lock
LockedDeliver == WriteLockFree /\ Deliver

\* the swap of update(), which waits for the mutex
LockedSwap == QueueLockFree /\ UpdateSwap

\* add_block calls per session under SpecLocks
MaxLockDeliveries == 3

InitLocks ==
    /\ InitMap
    /\ NoAtlas
    /\ mesh_args = NoMeshArgs
    /\ env = [ world |-> PairWorld, contents |-> { "stone" },
               budget |-> MaxLockDeliveries, steps |-> CoarseTickSteps ]

NextLocks ==
    \/ LockedDeliver
    \/ UpdateTimeout
    \/ LockedSwap
    \/ UpdateInstall
    \/ Tick
    \/ \E w \in Workers : WorkerRecv(w)
    \/ \E w \in Workers : WorkerAcquireRead(w)
    \/ \E w \in Workers : WorkerLookup(w)
    \/ \E w \in Workers : WorkerMesh(w)
    \/ \E w \in Workers : WorkerPanic(w)
    \/ \E w \in Workers : WorkerAcquireQueue(w)
    \/ \E w \in Workers : WorkerInsert(w)

SpecLocks == InitLocks /\ [][NextLocks]_vars

---------------------------------------------------------------------------
(* The seven reads of a job, in two steps: the read of the centre and the  *)
(* reads of the six neighbours, with the read guard held from the one to   *)
(* the end of the other.                                                   *)

\* lines 466-469: blocks.get(&pos), and `continue` without the centre
WorkerReadCentre(w) ==
    /\ wpc[w] = "lookup"
    /\ IF wpos[w] \in DOMAIN blocks
       THEN /\ wblock' = [ wblock EXCEPT ![w] =
                            [ NoSnapshot EXCEPT !.block = blocks[wpos[w]],
                                                !.ver = blocks_ver ] ]
            /\ wpc' = [ wpc EXCEPT ![w] = "nbors" ]
            /\ wpos' = wpos
            /\ readers' = readers
       ELSE /\ wpc' = [ wpc EXCEPT ![w] = "recv" ]
            /\ wpos' = [ wpos EXCEPT ![w] = NoPos ]
            /\ wblock' = wblock
            /\ readers' = readers \ {w}
    /\ UNCHANGED << blocks, blocks_defer, block_models, meshgen_channel,
                    queue_consume, queue_produce, rpc, vbuf_live, camera,
                    draws, env, ticks, blocks_ver, ev, mesh_args, buffer,
                    nodes, allocator, textures, atlas_pc, map, nodedefs,
                    media, flow, gfx_pc, map_builds, queue_lock, poisoned,
                    conn, net_events, events >>

\* lines 471-475: the six blocks.get of the neighbours, and drop(blocks)
WorkerReadNbors(w) ==
    /\ wpc[w] = "nbors"
    /\ wblock' = [ wblock EXCEPT ![w].nbors = Snapshot(wpos[w]).nbors ]
    /\ wpc' = [ wpc EXCEPT ![w] = "mesh" ]
    /\ readers' = ReadersAfterLookup(w)
    /\ UNCHANGED << blocks, blocks_defer, block_models, meshgen_channel,
                    queue_consume, queue_produce, wpos, rpc, vbuf_live,
                    camera, draws, env, ticks, blocks_ver, ev, mesh_args,
                    buffer, nodes, allocator, textures, atlas_pc, map,
                    nodedefs, media, flow, gfx_pc, map_builds, queue_lock,
                    poisoned,
                    conn, net_events, events >>

InitReads ==
    /\ InitMap
    /\ NoAtlas
    /\ mesh_args = NoMeshArgs
    /\ env = [ world |-> PairWorld, contents |-> Contents,
               budget |-> MaxLockDeliveries, steps |-> CoarseTickSteps ]

NextReads ==
    \/ LockedDeliver
    \/ UpdateTimeout
    \/ LockedSwap
    \/ UpdateInstall
    \/ Tick
    \/ \E w \in Workers : WorkerRecv(w)
    \/ \E w \in Workers : WorkerAcquireRead(w)
    \/ \E w \in Workers : WorkerReadCentre(w)
    \/ \E w \in Workers : WorkerReadNbors(w)
    \/ \E w \in Workers : WorkerMesh(w)
    \/ \E w \in Workers : WorkerAcquireQueue(w)
    \/ \E w \in Workers : WorkerInsert(w)

SpecReads == InitReads /\ [][NextReads]_vars

---------------------------------------------------------------------------
(* net.rs: the network task.  Each action is one turn of the select! loop  *)
(* of run(): a packet of the server handled by handle_pkt, a tick of the   *)
(* Init interval, or a NetEvent of the event loop.  The packets that touch *)
(* neither the Conn nor the two event channels (Kick, MovePlayer, ChatMsg, *)
(* the position interval) are left out, and the connection stays open, so  *)
(* that no send fails.                                                     *)

\* server packets handled per connection
MaxPkts == 4
\* Init packets sent per connection
MaxInitPkts == 2
\* the batches the server splits the media into
MaxBatches == 2

\* line 47: the name the client logs in with, and another one
Username == "shrek"
UserNames == { Username, "fiona" }
\* the auth methods a Hello may offer
AuthMethods == { "FirstSrp", "Srp" }

\* the Conn after one more packet of kind p was sent
Sent(c, p) == [ c EXCEPT !.tx[p] = @ + 1 ]

\* a variant that answers a Hello in every state
HelloAcceptedAlways(c) == TRUE
\* lines 136-138: a Hello is handled in Init only
HelloAccepted(c) == c.auth = "Init"

\* lines 129-178: Hello { auth_methods, username }
HandleHello(c, auth_methods, name) ==
    IF ~ HelloAccepted(c) THEN c
    ELSE IF name # Username THEN [ c EXCEPT !.running = FALSE ]
    ELSE IF "FirstSrp" \in auth_methods
         THEN [ Sent(c, "FirstSrp") EXCEPT !.auth = "Done" ]
    ELSE IF "Srp" \in auth_methods
         THEN [ Sent(c, "SrpBytesA") EXCEPT !.auth = "Verify" ]
    ELSE [ c EXCEPT !.running = FALSE ]

\* lines 179-197: SrpBytesSaltB { salt, b }; process_reply refuses a bad B
\* and the unwrap panics
HandleSrpBytesSaltB(c, ok) ==
    IF c.auth # "Verify" THEN c
    ELSE IF ok THEN [ Sent(c, "SrpBytesM") EXCEPT !.auth = "Done" ]
    ELSE [ c EXCEPT !.running = FALSE ]

\* lines 66-70: rx.recv() gave a packet
Receives == conn.running /\ conn.rx < MaxPkts
Received(c) == [ c EXCEPT !.rx = @ + 1 ]

NetHello ==
    /\ Receives
    /\ \E auth_methods \in SUBSET AuthMethods, name \in UserNames :
         conn' = HandleHello(Received(conn), auth_methods, name)
    /\ UNCHANGED << blocks, blocks_defer, block_models, meshgen_channel,
                    queue_consume, queue_produce, wpc, wpos, wblock, rpc,
                    vbuf_live, camera, draws, env, ticks, blocks_ver, ev,
                    mesh_args, buffer, nodes, allocator, textures, atlas_pc,
                    map, nodedefs, media, flow, gfx_pc, map_builds,
                    readers, queue_lock, poisoned, net_events, events >>

NetSrpBytesSaltB ==
    /\ Receives
    /\ \E ok \in BOOLEAN :
         conn' = HandleSrpBytesSaltB(Received(conn), ok)
    /\ UNCHANGED << blocks, blocks_defer, block_models, meshgen_channel,
                    queue_consume, queue_produce, wpc, wpos, wblock, rpc,
                    vbuf_live, camera, draws, env, ticks, blocks_ver, ev,
                    mesh_args, buffer, nodes, allocator, textures, atlas_pc,
                    map, nodedefs, media, flow, gfx_pc, map_builds,
                    readers, queue_lock, poisoned, net_events, events >>

\* lines 204-214: AcceptAuth { player_pos }
NetAcceptAuth ==
    /\ Receives
    /\ conn' = [ Sent(Received(conn), "Init2") EXCEPT !.send_pos_iv = TRUE ]
    /\ UNCHANGED << blocks, blocks_defer, block_models, meshgen_channel,
                    queue_consume, queue_produce, wpc, wpos, wblock, rpc,
                    vbuf_live, camera, draws, env, ticks, blocks_ver, ev,
                    mesh_args, buffer, nodes, allocator, textures, atlas_pc,
                    map, nodedefs, media, flow, gfx_pc, map_builds,
                    readers, queue_lock, poisoned, net_events, events >>

\* a variant whose interval ticks in every state
InitTickArmedAlways(c) == TRUE
\* lines 71-74: the Init interval is polled while the state is Init
InitTickArmed(c) == c.auth = "Init"

\* lines 71-76: a tick of the Init interval
NetInitTick ==
    /\ conn.running
    /\ InitTickArmed(conn)
    /\ conn.tx["Init"] < MaxInitPkts
    /\ conn' = Sent(conn, "Init")
    /\ UNCHANGED << blocks, blocks_defer, block_models, meshgen_channel,
                    queue_consume, queue_produce, wpc, wpos, wblock, rpc,
                    vbuf_live, camera, draws, env, ticks, blocks_ver, ev,
                    mesh_args, buffer, nodes, allocator, textures, atlas_pc,
                    map, nodedefs, media, flow, gfx_pc, map_builds,
                    readers, queue_lock, poisoned, net_events, events >>

\* lines 224-232: BlockData { pos, block }: the block goes to the event loop
\* and is acknowledged
NetBlockData ==
    /\ Receives
    /\ \E pos \in env.world, block \in env.contents :
         /\ events' = Append(events,
                [ type |-> "MapBlock", pos |-> pos, block |-> block ])
         /\ conn' = [ Received(conn) EXCEPT !.acked = @ \cup { pos } ]
    /\ UNCHANGED << blocks, blocks_defer, block_models, meshgen_channel,
                    queue_consume, queue_produce, wpc, wpos, wblock, rpc,
                    vbuf_live, camera, draws, env, ticks, blocks_ver, ev,
                    mesh_args, buffer, nodes, allocator, textures, atlas_pc,
                    map, nodedefs, media, flow, gfx_pc, map_builds,
                    readers, queue_lock, poisoned, net_events >>

\* line 243: the batch i of n is the final one
IsFinalBatch(n, i) == i + 1 = n

\* lines 241-245: Media { files, n, i }
NetMedia ==
    /\ Receives
    /\ \E files \in MediaBatches, n \in 1 .. MaxBatches :
         \E i \in 0 .. n - 1 :
           events' = Append(events,
                [ type |-> "Media", files |-> files,
                  finished |-> IsFinalBatch(n, i) ])
    /\ conn' = Received(conn)
    /\ UNCHANGED << blocks, blocks_defer, block_models, meshgen_channel,
                    queue_consume, queue_produce, wpc, wpos, wblock, rpc,
                    vbuf_live, camera, draws, env, ticks, blocks_ver, ev,
                    mesh_args, buffer, nodes, allocator, textures, atlas_pc,
                    map, nodedefs, media, flow, gfx_pc, map_builds,
                    readers, queue_lock, poisoned, net_events >>

\* lines 198-200: NodeDefs(defs)
NetNodeDefs ==
    /\ Receives
    /\ \E defs \in GfxTables :
         events' = Append(events, [ type |-> "NodeDefs", defs |-> defs ])
    /\ conn' = Received(conn)
    /\ UNCHANGED << blocks, blocks_defer, block_models, meshgen_channel,
                    queue_consume, queue_produce, wpc, wpos, wblock, rpc,
                    vbuf_live, camera, draws, env, ticks, blocks_ver, ev,
                    mesh_args, buffer, nodes, allocator, textures, atlas_pc,
                    map, nodedefs, media, flow, gfx_pc, map_builds,
                    readers, queue_lock, poisoned, net_events >>

\* lines 98-110: NetEvent::Ready, answered with CltReady
NetReady ==
    /\ conn.running
    /\ net_events # << >>
    /\ Head(net_events) = "Ready"
    /\ net_events' = Tail(net_events)
    /\ conn' = Sent(conn, "CltReady")
    /\ UNCHANGED << blocks, blocks_defer, block_models, meshgen_channel,
                    queue_consume, queue_produce, wpc, wpos, wblock, rpc,
                    vbuf_live, camera, draws, env, ticks, blocks_ver, ev,
                    mesh_args, buffer, nodes, allocator, textures, atlas_pc,
                    map, nodedefs, media, flow, gfx_pc, map_builds,
                    readers, queue_lock, poisoned, events >>

\* gfx.rs lines 176-196: the event loop takes the user event at the head of
\* the queue
GfxTakeEvent ==
    /\ events # << >>
    /\ events' = Tail(events)
    /\ LET e == Head(events)
       IN  CASE e.type = "MapBlock" -> HandleMapBlock(e.pos, e.block)
             [] e.type = "Media"    -> HandleMedia(e.files, e.finished)
             [] e.type = "NodeDefs" -> HandleNodeDefs(e.defs)

\* the handshake alone
InitAuth == InitGfx

NextAuth ==
    \/ NetHello
    \/ NetSrpBytesSaltB
    \/ NetAcceptAuth
    \/ NetInitTick

SpecAuth == InitAuth /\ [][NextAuth]_vars

\* the network task and the event loop, after the handshake
InitNet == InitGfx

NextNet ==
    \/ NetBlockData
    \/ NetMedia
    \/ NetNodeDefs
    \/ NetReady
    \/ GfxTakeEvent
    \/ AtlasNode
    \/ AtlasTile
    \/ AtlasAllocate
    \/ AtlasGrow
    \/ GfxMapBuilt

SpecNet == InitNet /\ [][NextNet]_vars

---------------------------------------------------------------------------
(* The ends of the coordinate range.  The sum of pos and a FACE_DIR adds   *)
(* i16 components: past the range the addition panics in a build with      *)
(* overflow checks and wraps in a build without them.  Which build it is   *)
(* is chosen at the start (env.checks).  A panic of add_block is a panic   *)
(* of the thread of the event loop, and what it had done to the deferred   *)
(* records before is seen by nobody.                                       *)

\* the statements of worker w, from recv to the insert
WorkerRuns(w) == WorkerRecv(w) \/ WorkerRead(w) \/ WorkerPublish(w)

MinI16 == -32768
MaxI16 == 32767

\* pos + FACE_DIR[f] in the integers
ExactNbor(pos, f) == [ i \in 1..3 |-> pos[i] + FACE_DIR[f][i] ]

\* map.rs line 234: the addition leaves the range of i16 for some face
Overflows(pos) ==
    \E f \in Faces : \E i \in 1..3 :
        ExactNbor(pos, f)[i] < MinI16 \/ ExactNbor(pos, f)[i] > MaxI16

\* the chunks at the two ends of the x axis and the ones next to them
EdgeWorld ==
    { << MaxI16 - 1, 0, 0 >>, << MaxI16, 0, 0 >>,
      << MinI16, 0, 0 >>, << MinI16 + 1, 0, 0 >> }

\* lines 225-234 with overflow checks: the block is inserted, then the
\* addition panics
AddBlockPanic(pos, block) ==
    /\ rpc = "idle"
    /\ blocks_ver < env.budget
    /\ blocks' = MapInsert(blocks, pos, block)
    /\ blocks_ver' = blocks_ver + 1
    /\ rpc' = "dead"
    /\ ev' = [ op |-> "panic", pos |-> pos, sends |-> << >>, dropped |-> 0 ]
    /\ UNCHANGED << blocks_defer, block_models, meshgen_channel,
                    queue_consume, queue_produce, wpc, wpos, wblock,
                    vbuf_live, camera, draws, env, ticks, mesh_args, buffer,
                    nodes, allocator, textures, atlas_pc, map, nodedefs,
                    media, flow, gfx_pc, map_builds, readers, queue_lock,
                    poisoned, conn, net_events >>

DeliverEdge ==
    /\ \E pos \in env.world, block \in env.contents :
         IF env.checks /\ Overflows(pos)
         THEN AddBlockPanic(pos, block)
         ELSE AddBlock(pos, block)
    /\ UNCHANGED events

\* add_block calls per session under SpecEdge
MaxEdgeDeliveries == 3

InitEdge ==
    /\ InitMap
    /\ NoAtlas
    /\ mesh_args = NoMeshArgs
    /\ \E checks \in BOOLEAN :
         env = [ world |-> EdgeWorld, contents |-> { "stone" },
                 budget |-> MaxEdgeDeliveries, steps |-> CoarseTickSteps,
                 checks |-> checks ]

NextEdge ==
    \/ DeliverEdge
    \/ UpdateTimeout
    \/ UpdateSwap
    \/ UpdateInstall
    \/ Tick
    \/ \E w \in Workers : WorkerRuns(w)

SpecEdge == InitEdge /\ [][NextEdge]_vars

---------------------------------------------------------------------------
(* Progress.  The event loop calls update() on every redraw, the clock     *)
(* goes on, and a worker thread that is not ended is scheduled again and   *)
(* again.  The last worker may end in a panic of create_mesh; the first    *)
(* one keeps running.                                                      *)

\* the clock advances by 101 ms, any number of times and at any point of
\* the render thread: only the retain of update() reads it
Advance ==
    /\ blocks_defer' =
         [ p \in DOMAIN blocks_defer |->
             Older(blocks_defer[p], (TIMEOUT_MS + 1) * UnitsPerMs) ]
    /\ blocks_defer' # blocks_defer
    /\ UNCHANGED << blocks, block_models, meshgen_channel, queue_consume,
                    queue_produce, wpc, wpos, wblock, rpc, vbuf_live, camera,
                    draws, env, ticks, blocks_ver, ev, mesh_args, buffer,
                    nodes, allocator, textures, atlas_pc, map, nodedefs,
                    media, flow, gfx_pc, map_builds, readers, queue_lock,
                    poisoned,
                    conn, net_events, events >>

\* add_block calls per session under SpecLive
MaxLiveDeliveries == 3

InitLive ==
    /\ InitMap
    /\ NoAtlas
    /\ mesh_args = NoMeshArgs
    /\ env = [ world |-> PairWorld, contents |-> { "stone" },
               budget |-> MaxLiveDeliveries, steps |-> CoarseTickSteps ]

NextLive ==
    \/ Deliver
    \/ UpdateTimeout
    \/ UpdateSwap
    \/ UpdateInstall
    \/ Advance
    \/ \E w \in Workers : WorkerRuns(w)
    \/ WorkerPanic(NUM_WORKERS)

\* update() keeps being called, time advances, the workers are scheduled
Fairness ==
    /\ WF_vars(UpdateTimeout)
    /\ WF_vars(UpdateSwap)
    /\ WF_vars(UpdateInstall)
    /\ WF_vars(Advance)
    /\ \A w \in Workers : WF_vars(WorkerRuns(w))

SpecLive == InitLive /\ [][NextLive]_vars /\ Fairness

---------------------------------------------------------------------------
(* The worker closure taken alone.  Its inputs are the channel and the     *)
(* Block Store: here the channel holds any three coordinates and the store *)
(* any chunks, so that a coordinate whose chunk the store lacks is among   *)
(* the jobs.  (add_block and update() send only coordinates of stored      *)
(* chunks, and nothing removes a chunk.)                                   *)

\* jobs waiting in the channel under SpecWorker
MaxJobs == 3

InitWorker ==
    /\ \E S \in SUBSET PairWorld : blocks \in [ S -> Contents ]
    /\ meshgen_channel \in [ 1..MaxJobs -> { {p} : p \in PairWorld } ]
    /\ blocks_defer = EmptyMap
    /\ block_models = EmptyMap
    /\ queue_consume = EmptyMap
    /\ queue_produce = EmptyMap
    /\ wpc = [ w \in Workers |-> "recv" ]
    /\ wpos = [ w \in Workers |-> NoPos ]
    /\ wblock = [ w \in Workers |-> NoSnapshot ]
    /\ rpc = "idle"
    /\ vbuf_live = 0
    /\ camera = NoCamera
    /\ draws = << >>
    /\ ticks = 0
    /\ blocks_ver = 0
    /\ ev = [ op |-> "new", pos |-> NoPos, sends |-> << >>, dropped |-> 0 ]
    /\ mesh_args = NoMeshArgs
    /\ buffer = EmptyBuffer
    /\ allocator = NewAllocator
    /\ textures = << >>
    /\ NoAtlas
    /\ env = [ world |-> PairWorld, contents |-> Contents, budget |-> 0,
               steps |-> {} ]

NextWorker ==
    \/ \E w \in Workers : WorkerRecv(w)
    \/ \E w \in Workers : WorkerAcquireRead(w)
    \/ \E w \in Workers : WorkerLookup(w)
    \/ \E w \in Workers : WorkerMesh(w)
    \/ \E w \in Workers : WorkerAcquireQueue(w)
    \/ \E w \in Workers : WorkerInsert(w)

SpecWorker == InitWorker /\ [][NextWorker]_vars

---------------------------------------------------------------------------
(* Vocabulary of the properties.  `ev` is the last operation of the render *)
(* thread: after add_block(pos), ev.pos is pos and ev.sends the jobs that  *)
(* call sent; no step but the next operation of the render thread changes  *)
(* the block store or removes a deferred record.                           *)

\* the faces of pos whose neighbour chunk is in the block store
PresentFaces(pos) == { f \in Faces : NborPos(pos, f) \in DOMAIN blocks }

\* the step is a call of add_block
IsAddBlockStep == blocks_ver' = blocks_ver + 1

\* the step is the drain_filter pass of update()
IsTimeoutStep == rpc = "idle" /\ rpc' = "swap"

\* the step is the swap of update()
IsSwapStep == rpc = "swap" /\ rpc' = "drain"

\* the step is the installation of update()
IsInstallStep == rpc = "drain" /\ rpc' = "idle"

\* the step is worker w's insert into queue_produce
IsPublishStep(w) == wpc[w] = "mesh" /\ wpc'[w] = "recv"

\* jobs for c sent by the step
SentInStep(c) ==
    IF IsAddBlockStep \/ IsTimeoutStep THEN Occurrences(ev'.sends, c) ELSE 0

---------------------------------------------------------------------------
\* C1: when add_block(C) finds all six face neighbours of C in the block
\* store, that call sends exactly one job for C and C holds no deferred
\* record afterwards.
C1_ImmediateDispatch ==
    (ev.op = "add_block" /\ PresentFaces(ev.pos) = Faces)
        => /\ Occurrences(ev.sends, ev.pos) = 1
           /\ ev.pos \notin DOMAIN blocks_defer

\* a chunk was inserted with all six neighbours present and was dispatched
C1_Witness ==
    /\ ev.op = "add_block"
    /\ PresentFaces(ev.pos) = Faces
    /\ Occurrences(ev.sends, ev.pos) = 1

---------------------------------------------------------------------------
\* C2: when add_block(C) finds k < 6 face neighbours present, that call
\* sends no job for C and leaves C with a deferred record whose mask is
\* set exactly for the present directions (the 6 - k absent ones are the
\* missing ones) and whose count is 6 - k.
C2_DeferredRecord ==
    (ev.op = "add_block" /\ PresentFaces(ev.pos) # Faces)
        => /\ Occurrences(ev.sends, ev.pos) = 0
           /\ ev.pos \in DOMAIN blocks_defer
           /\ \A f \in Faces :
                blocks_defer[ev.pos].mask[f] <=> f \in PresentFaces(ev.pos)
           /\ blocks_defer[ev.pos].count = 6 - Cardinality(PresentFaces(ev.pos))

\* a chunk was inserted with three of its neighbours present and deferred
C2_Witness ==
    /\ ev.op = "add_block"
    /\ Cardinality(PresentFaces(ev.pos)) = 3
    /\ ev.pos \in DOMAIN blocks_defer
    /\ blocks_defer[ev.pos].count = 3

---------------------------------------------------------------------------
\* the step delivers a face neighbour of c that the block store lacked
MissingNborArrives(c) ==
    /\ IsAddBlockStep
    /\ ev'.pos \notin DOMAIN blocks
    /\ \E f \in Faces : NborPos(c, f) = ev'.pos

\* C3 (as amended): for a chunk C holding a deferred record, each arrival
\* of a face neighbour the block store lacked lowers C's count by exactly
\* one; add_block sends a job for C exactly once, in the call in which the
\* count reaches zero (the record is removed by that call), and never in a
\* call that leaves the count above zero; any other add_block call for
\* another chunk leaves C's record as it is and sends no job for C.
C3_CountdownDispatch ==
    [][ IsAddBlockStep =>
          \A c \in DOMAIN blocks_defer \ { ev'.pos } :
             IF MissingNborArrives(c)
             THEN IF blocks_defer[c].count = 1
                  THEN /\ c \notin DOMAIN blocks_defer'
                       /\ Occurrences(ev'.sends, c) = 1
                  ELSE /\ c \in DOMAIN blocks_defer'
                       /\ blocks_defer'[c].count = blocks_defer[c].count - 1
                       /\ Occurrences(ev'.sends, c) = 0
             ELSE /\ c \in DOMAIN blocks_defer'
                  /\ blocks_defer'[c] = blocks_defer[c]
                  /\ Occurrences(ev'.sends, c) = 0 ]_vars

\* the last missing neighbour of a deferred chunk arrived and the chunk was
\* dispatched by that call
C3_Witness ==
    /\ ev.op = "add_block"
    /\ \E c \in DOMAIN blocks \ { ev.pos } :
         /\ PresentFaces(c) = Faces
         /\ Occurrences(ev.sends, c) = 1
         /\ c \notin DOMAIN blocks_defer

\* C3 (as stated): a chunk deferred at insertion is dispatched exactly once,
\* by the add_block call in which its count reaches zero: never before, and
\* no second job for it is sent.  The outer chunks are deferred at every
\* insertion; under SpecTracker meshgen_channel holds every job ever sent.
C3_Original ==
    [][ \A c \in OuterChunks :
          SentInStep(c) > 0 =>
             /\ Occurrences(meshgen_channel, c) = 0
             /\ SentInStep(c) = 1
             /\ IsAddBlockStep
             /\ c \in DOMAIN blocks_defer
             /\ blocks_defer[c].count = 1 ]_vars

---------------------------------------------------------------------------
\* C4 (as amended): the drain_filter pass of update() sends exactly one job
\* for every deferred record whose age, cut to whole milliseconds, exceeds
\* 100 (101 ms or more have elapsed since the record was created) and
\* drops that record in the same step; it keeps every younger record
\* unchanged and sends no job for its chunk, and it sends no job for a
\* chunk without a record.  A record more than 100 ms but less than 101 ms
\* old is therefore kept by an update() call made at that moment.
C4_TimeoutDispatch ==
    [][ IsTimeoutStep =>
          /\ \A c \in DOMAIN blocks_defer :
                IF blocks_defer[c].elapsed >= (TIMEOUT_MS + 1) * UnitsPerMs
                THEN /\ c \notin DOMAIN blocks_defer'
                     /\ Occurrences(ev'.sends, c) = 1
                ELSE /\ c \in DOMAIN blocks_defer'
                     /\ blocks_defer'[c] = blocks_defer[c]
                     /\ Occurrences(ev'.sends, c) = 0
          /\ \A i \in DOMAIN ev'.sends : ev'.sends[i] \subseteq DOMAIN blocks_defer
      ]_vars

\* update() dispatched a chunk that still lacks a neighbour and dropped its
\* record
C4_Witness ==
    /\ ev.op = "update"
    /\ \E i \in DOMAIN ev.sends : \E c \in ev.sends[i] :
         /\ PresentFaces(c) # Faces
         /\ c \notin DOMAIN blocks_defer

\* C4 (as stated): the first update() call after more than 100 ms have
\* elapsed since the record was created dispatches the chunk and drops the
\* record; an update() call at 100 ms or less does neither.
C4_Original ==
    [][ IsTimeoutStep =>
          \A c \in DOMAIN blocks_defer :
             IF blocks_defer[c].elapsed > TIMEOUT_MS * UnitsPerMs
             THEN /\ c \notin DOMAIN blocks_defer'
                  /\ Occurrences(ev'.sends, c) = 1
             ELSE /\ c \in DOMAIN blocks_defer'
                  /\ Occurrences(ev'.sends, c) = 0 ]_vars

---------------------------------------------------------------------------
\* mesh a, built from an older state of the block store than mesh b, differs
\* from it
StaleAgainst(a, b) ==
    /\ a.ver < b.ver
    /\ \/ a.vertices # b.vertices
       \/ a.vertices_blend # b.vertices_blend

\* C5: a mesh built from an older snapshot of the block store never
\* replaces a different mesh built from a newer snapshot, neither in the
\* produce map (a worker's insert) nor in the render model table (the
\* installation by update()).
C5_LaterSupersedes ==
    [][ /\ \A w \in Workers :
             (IsPublishStep(w) /\ wpos[w] \in DOMAIN queue_produce)
                => ~StaleAgainst(MeshOf(wblock[w]), queue_produce[wpos[w]])
        /\ IsInstallStep =>
             \A p \in DOMAIN queue_consume \cap DOMAIN block_models :
                \/ queue_consume[p].ver >= block_models[p].ver
                \/ /\ BlockMeshNew(queue_consume[p].vertices) = block_models[p].mesh
                   /\ BlockMeshNew(queue_consume[p].vertices_blend)
                        = block_models[p].mesh_blend ]_vars

---------------------------------------------------------------------------
\* C6: every call add_block(C) leaves C, and every face neighbour of C that
\* is in the block store, either with a job sent by that call or with a
\* deferred record; and a deferred record is only ever removed by a step
\* that sends a job for its chunk.  So no delivery, whatever the workers
\* are doing, leaves a stored chunk with a missed re-mesh.
C6_DispatchComplete ==
    [][ /\ IsAddBlockStep =>
             \A x \in { ev'.pos } \cup
                      { n \in { NborPos(ev'.pos, f) : f \in Faces } :
                          n \in DOMAIN blocks' } :
                \/ Occurrences(ev'.sends, x) >= 1
                \/ x \in DOMAIN blocks_defer'
        /\ \A c \in DOMAIN blocks_defer \ DOMAIN blocks_defer' :
             SentInStep(c) = 1 ]_vars

\* a neighbour arrived while a worker held an older snapshot of the chunk
\* next to it, after that chunk's record had timed out: the chunk was sent
\* again
C6_Witness ==
    /\ ev.op = "add_block"
    /\ \E w \in Workers :
         /\ wpc[w] = "mesh"
         /\ wpos[w] # ev.pos
         /\ wblock[w].ver < blocks_ver
         /\ Occurrences(ev.sends, wpos[w]) = 1

---------------------------------------------------------------------------
\* C7 (as amended): the consume map is empty except between the swap and
\* the installation of one update(); the swap moves the whole produce map
\* into the consume map and leaves the produce map empty; the installation
\* builds the render model of every coordinate of the consume map from the
\* mesh held there, keeps every other render model and empties the consume
\* map; a worker's insert changes the produce map at its own coordinate
\* only, where it replaces whatever mesh is waiting there.  So every mesh
\* in the produce map at the swap is installed exactly once by that
\* update(), and a mesh published after the swap is installed by the next
\* update() unless a later insert for the same coordinate replaces it first.
C7_SwapHandoff ==
    [][ /\ rpc' \in { "idle", "swap" } => queue_consume' = EmptyMap
        /\ IsSwapStep =>
             /\ queue_consume' = queue_produce
             /\ queue_produce' = EmptyMap
             /\ block_models' = block_models
        /\ IsInstallStep =>
             /\ DOMAIN block_models' = DOMAIN block_models \cup DOMAIN queue_consume
             /\ \A p \in DOMAIN queue_consume :
                  block_models'[p] = BlockModelNew(queue_consume[p])
             /\ \A p \in DOMAIN block_models \ DOMAIN queue_consume :
                  block_models'[p] = block_models[p]
             /\ queue_produce' = queue_produce
        /\ \A w \in Workers :
             IsPublishStep(w) =>
                /\ DOMAIN queue_produce' = DOMAIN queue_produce \cup { wpos[w] }
                /\ queue_produce'[wpos[w]] = MeshOf(wblock[w])
                /\ \A p \in DOMAIN queue_produce \ { wpos[w] } :
                     queue_produce'[p] = queue_produce[p]
                /\ queue_consume' = queue_consume
                /\ block_models' = block_models
        /\ (~IsSwapStep /\ \A w \in Workers : ~IsPublishStep(w))
             => queue_produce' = queue_produce ]_vars

\* a worker published a mesh after the swap, while the meshes taken by the
\* swap were waiting to be installed
C7_Witness ==
    /\ rpc = "drain"
    /\ queue_consume # EmptyMap
    /\ queue_produce # EmptyMap

\* C7 (as stated): a mesh published into the produce map is not lost: it
\* stays there until a swap takes it to be installed.
C7_Original ==
    [][ \A p \in DOMAIN queue_produce :
          ~IsSwapStep =>
             /\ p \in DOMAIN queue_produce'
             /\ queue_produce'[p] = queue_produce[p] ]_vars

---------------------------------------------------------------------------
\* C8: the vertex buffers alive are exactly the present partitions of the
\* render models in the table (which holds one model per coordinate):
\* installing a model drops the buffers of the model it replaces.
C8_NoLeakedBuffers ==
    vbuf_live = Buffers(block_models, DOMAIN block_models)

\* update() replaced a render model that owned a vertex buffer
C8_Witness ==
    /\ ev.op = "install"
    /\ ev.dropped > 0
    /\ vbuf_live > 0

---------------------------------------------------------------------------
\* the positions in `draws` of the draw calls of blended partitions
BlendDrawn == { i \in DOMAIN draws : draws[i].part = "mesh_blend" }

\* C9: the blended partitions are drawn back to front: a blended draw call
\* never comes before one of a chunk that is farther from the camera.
C9_FarthestFirst ==
    \A i, j \in BlendDrawn : i < j => draws[i].dist >= draws[j].dist

---------------------------------------------------------------------------
\* C10: blended chunks at equal camera distance are drawn in ascending
\* order of the index they were collected with.
C10_TiesByIndex ==
    \A i, j \in BlendDrawn :
       (i < j /\ draws[i].dist = draws[j].dist)
           => draws[i].index < draws[j].index

\* two blended chunks at the same distance were drawn, with a third in the
\* table
C10_Witness ==
    /\ Cardinality(DOMAIN block_models) >= 3
    /\ \E i, j \in BlendDrawn :
         /\ i < j
         /\ draws[i].dist = draws[j].dist
         /\ draws[i].index < draws[j].index

---------------------------------------------------------------------------
\* C11: within one render() every draw call of an opaque partition comes
\* before every draw call of a blended partition.
C11_OpaqueBeforeBlend ==
    \A i, j \in DOMAIN draws :
       (draws[i].part = "mesh" /\ draws[j].part = "mesh_blend") => i < j

\* a frame drew two opaque and two blended partitions
C11_Witness ==
    /\ Cardinality({ i \in DOMAIN draws : draws[i].part = "mesh" }) >= 2
    /\ Cardinality(BlendDrawn) >= 2

---------------------------------------------------------------------------
\* the draw calls of `draws` for the partition `part` of chunk p
DrawsOf(ds, p, part) ==
    { i \in DOMAIN ds : ds[i].pos = p /\ ds[i].part = part }

\* C12: render() issues no draw call for a chunk whose box is outside the
\* frustum and changes neither the render model table nor the block store,
\* the deferred records, the work channel or the mesh queues; a chunk the
\* previous frame rejected and this frame does not is drawn from the model
\* it has, one draw call per partition present, with no job sent.
C12_CulledNotDrawn ==
    [][ ev'.op = "render" =>
          /\ \A p \in DOMAIN block_models' :
                FrustumOut(camera', p) =>
                   /\ DrawsOf(draws', p, "mesh") = {}
                   /\ DrawsOf(draws', p, "mesh_blend") = {}
          /\ \A p \in ev'.before :
                ~FrustumOut(camera', p) =>
                   \A part \in { "mesh", "mesh_blend" } :
                      /\ Cardinality(DrawsOf(draws', p, part))
                           = IF block_models'[p][part].present THEN 1 ELSE 0
                      /\ \A i \in DrawsOf(draws', p, part) :
                           draws'[i].num_vertices
                             = block_models'[p][part].num_vertices
          /\ UNCHANGED << block_models, blocks, blocks_defer, meshgen_channel,
                          queue_consume, queue_produce >> ]_vars

\* a chunk the previous frame rejected is drawn by this frame, and another
\* chunk of the table is rejected by this frame
C12_Witness ==
    /\ ev.op = "render"
    /\ ev.culled # {}
    /\ \E p \in ev.before \ ev.culled :
         DrawsOf(draws, p, "mesh") \cup DrawsOf(draws, p, "mesh_blend") # {}


\* the voxel that touches face f of voxel `index`, by its coordinates: in
\* the chunk itself, or across the border in the neighbour chunk on that
\* side, with 15 and 0 exchanged on the axis crossed; NoBlock when that
\* neighbour chunk is absent
AdjacentContent(blk, nbors, index, f) ==
    LET x  == index % 16
        y  == (index \div 16) % 16
        z  == index \div 256
        nx == x + FACE_DIR[f][1]
        ny == y + FACE_DIR[f][2]
        nz == z + FACE_DIR[f][3]
        inside == nx \in 0..15 /\ ny \in 0..15 /\ nz \in 0..15
        nidx == (nx % 16) + 16 * (ny % 16) + 256 * (nz % 16)
    IN  IF inside THEN VoxelAt(blk, nidx)
        ELSE IF nbors[f] = NoVoxels THEN NoBlock
        ELSE VoxelAt(nbors[f], nidx)

\* the faces of the cube geometry that the mesh holds, as pairs of a voxel
\* and a face
EmittedFaces ==
    { << r.index, r.f >> :
        r \in { q \in buffer.vertices \cup buffer.vertices_blend : q.mat = 0 } }

\* the draw type of a content id, "Unknown" without a node definition
DrawTypeOf(c) == IF HasNodeDef(c) THEN NodeDef(c).draw_type ELSE "Unknown"

\* C13: when two Cube voxels touch on a face, inside the chunk or across
\* the border to a neighbour chunk of the snapshot, the mesh holds no
\* vertices of that face.
C13_SharedCubeFaceHidden ==
    \A index \in 0..(CHUNK_VOXELS - 1), f \in Faces :
        (/\ DrawTypeOf(VoxelAt(mesh_args.block, index)) = "Cube"
         /\ DrawTypeOf(AdjacentContent(mesh_args.block, mesh_args.nbors,
                                       index, f)) = "Cube")
        => << index, f >> \notin EmittedFaces

\* a mesh was built from a stone voxel on a border that touches a cube of
\* the neighbour chunk, or from a chunk of stone around one voxel of glass
C13_Witness ==
    \/ \E g \in Faces :
         /\ mesh_args.returned
         /\ mesh_args.block.at = BorderVoxel(g)
         /\ mesh_args.block.is = "stone"
         /\ mesh_args.nbors[g].is = "dirt"
         /\ { e \in EmittedFaces : e[1] = BorderVoxel(g) } =
              { << BorderVoxel(g), f >> : f \in Faces \ { g } }
    \/ /\ mesh_args.returned
       /\ mesh_args.block.at = InnerVoxel
       /\ mesh_args.block.is = "glass"
       /\ mesh_args.block.fill = "stone"
       /\ Cardinality(EmittedFaces) = 12

\* C14: after create_mesh, a Liquid voxel has no face toward a voxel of its
\* own content id or toward a Cube, and has the face toward a voxel of
\* draw type None or of any other content id that is not a Cube.
C14_LiquidFaces ==
    mesh_args.returned =>
        \A index \in 0..(CHUNK_VOXELS - 1), f \in Faces :
            LET content == VoxelAt(mesh_args.block, index)
                n == AdjacentContent(mesh_args.block, mesh_args.nbors, index, f)
            IN  (DrawTypeOf(content) = "Liquid" /\ n # NoBlock) =>
                    IF n = content \/ DrawTypeOf(n) = "Cube"
                    THEN << index, f >> \notin EmittedFaces
                    ELSE << index, f >> \in EmittedFaces

\* a chunk of water was meshed around one voxel of lava, and the six faces
\* of the lava and the six faces of the water around it are all the faces
\* of the mesh
C14_Witness ==
    /\ mesh_args.returned
    /\ mesh_args.block.fill = "water"
    /\ mesh_args.block.is = "lava"
    /\ { e \in EmittedFaces : e[1] = InnerVoxel } =
         { << InnerVoxel, f >> : f \in Faces }
    /\ Cardinality(EmittedFaces) = 12

\* face f of voxel `index` lies on the border of the chunk
OnBorder(index, f) ==
    LET nx == (index % 16) + FACE_DIR[f][1]
        ny == ((index \div 16) % 16) + FACE_DIR[f][2]
        nz == (index \div 256) + FACE_DIR[f][3]
    IN  ~ (nx \in 0..15 /\ ny \in 0..15 /\ nz \in 0..15)

\* C15: after create_mesh, a Cube or Liquid voxel on the border has no face
\* toward an absent neighbour chunk, and toward a present one it has the
\* face exactly when the voxel of that chunk at the wrapped coordinate does
\* not hide it.
C15_BorderNeighbour ==
    mesh_args.returned =>
        \A index \in 0..(CHUNK_VOXELS - 1), f \in Faces :
            LET content == VoxelAt(mesh_args.block, index)
                n == AdjacentContent(mesh_args.block, mesh_args.nbors, index, f)
            IN  (DrawTypeOf(content) \in { "Cube", "Liquid" } /\ OnBorder(index, f))
                =>  (<< index, f >> \in EmittedFaces
                       <=> /\ n # NoBlock
                           /\ DrawTypeOf(n) # "Cube"
                           /\ ~ (DrawTypeOf(content) = "Liquid" /\ n = content))

\* a voxel of water on a border was meshed against a neighbour chunk whose
\* touching voxel is water too: the mesh has its five other faces
C15_Witness ==
    /\ mesh_args.returned
    /\ \E g \in Faces :
         /\ mesh_args.block.at = BorderVoxel(g)
         /\ mesh_args.block.is = "water"
         /\ mesh_args.nbors[g] # NoVoxels
         /\ mesh_args.nbors[g].fill = "air"
         /\ mesh_args.nbors[g].is = "water"
         /\ EmittedFaces = { << BorderVoxel(g), f >> : f \in Faces \ { g } }

\* the tiles of the table, each as its node and its place in the node
TilePositions ==
    UNION { { << n, t >> : t \in 1..Len(nodes[n]) } : n \in 1..Len(nodes) }

\* the tile at a position
TileAt(q) == nodes[q[1]][q[2]]

\* C16: no allocation fails: the allocate-or-grow loop of every texture
\* ends with a rectangle, on a canvas that is always 2^k by 2^k.
C16_AllocationNeverFails ==
    /\ atlas_pc.at # "panic"
    /\ allocator.width = allocator.height
    /\ \E k \in 0..30 : allocator.width = 2 ^ k

\* C17: after create_atlas two tiles with the same texture string, of one
\* node or of two, have the same slot, and there are as many slots as
\* distinct texture strings.
C17_OneSlotPerString ==
    atlas_pc.at = "done" =>
        /\ \A q1 \in TilePositions, q2 \in TilePositions :
              TileAt(q1).name = TileAt(q2).name
              => TileAt(q1).custom = TileAt(q2).custom
        /\ Len(textures) = Cardinality({ TileAt(q).name : q \in TilePositions })

\* the parts of a texture string that are missing or do not decode
BadParts(name) ==
    { i \in 1..Len(name) : name[i] \notin DOMAIN MediaImage }

\* C18: when create_atlas is over, every tile with a part that is missing
\* or does not decode has a slot, and it is over by returning.
C18_BadTextureCompletes ==
    atlas_pc.at \in { "done", "panic" } =>
        \A q \in TilePositions :
            BadParts(TileAt(q).name) # {}
            => /\ atlas_pc.at = "done"
               /\ TileAt(q).custom \in 0..(Len(textures) - 1)

\* C19: a partition of a render model has a buffer exactly when it has
\* vertices; every draw call of render() has vertices; a chunk without any
\* partition has no draw call, inside the frustum or not.
C19_NoEmptyDraws ==
    /\ \A p \in DOMAIN block_models : \A part \in { "mesh", "mesh_blend" } :
          block_models[p][part].present <=> block_models[p][part].num_vertices > 0
    /\ \A i \in DOMAIN draws :
          /\ draws[i].num_vertices > 0
          /\ block_models[draws[i].pos][draws[i].part].present
    /\ \A p \in DOMAIN block_models :
          (~block_models[p].mesh.present /\ ~block_models[p].mesh_blend.present)
          => DrawsOf(draws, p, "mesh") \cup DrawsOf(draws, p, "mesh_blend") = {}

\* a frame was drawn with a chunk without partitions inside the frustum,
\* a chunk with one partition and a chunk with both
C19_Witness ==
    /\ ev.op = "render"
    /\ \E p \in DOMAIN block_models :
         /\ ~block_models[p].mesh.present
         /\ ~block_models[p].mesh_blend.present
         /\ ~FrustumOut(camera, p)
    /\ \E p \in DOMAIN block_models :
         /\ block_models[p].mesh.present
         /\ ~block_models[p].mesh_blend.present
         /\ DrawsOf(draws, p, "mesh") # {}
    /\ \E p \in DOMAIN block_models :
         /\ DrawsOf(draws, p, "mesh") # {}
         /\ DrawsOf(draws, p, "mesh_blend") # {}

\* the face neighbours of c that the block store lacks after the step
MissingAfter(c) ==
    Cardinality({ f \in Faces : NborPos(c, f) \notin DOMAIN blocks' })

\* C20 (as amended): a chunk holds a deferred record after a step exactly
\* when the step is an add_block of the chunk that leaves a neighbour
\* missing, or the chunk held a record before and the step sent no job for
\* it; the count of a record is the number of missing neighbours and is
\* above zero; a record is removed only together with the one job for its
\* chunk, by the add_block that delivers its last missing neighbour or by
\* the drain_filter pass of an update() that finds its age, cut to whole
\* milliseconds, above 100, and that pass removes every such record.
C20_RecordLifecycle ==
    [][ \A c \in env.world :
          LET had == c \in DOMAIN blocks_defer
              has == c \in DOMAIN blocks_defer'
          IN  /\ has => /\ blocks_defer'[c].count = MissingAfter(c)
                        /\ blocks_defer'[c].count > 0
              /\ has <=> \/ IsAddBlockStep /\ ev'.pos = c /\ MissingAfter(c) > 0
                         \/ had /\ SentInStep(c) = 0
              /\ (had /\ ~has) =>
                    /\ SentInStep(c) = 1
                    /\ \/ IsAddBlockStep /\ MissingAfter(c) = 0
                       \/ IsTimeoutStep /\ AsMillis(blocks_defer[c].elapsed) > TIMEOUT_MS
              /\ (had /\ IsTimeoutStep
                      /\ AsMillis(blocks_defer[c].elapsed) > TIMEOUT_MS) => ~has
      ]_vars

\* a chunk that update() dispatched after its deadline was delivered again
\* and holds a record again
C20_Witness ==
    /\ ev.op = "add_block"
    /\ ev.pos \in DOMAIN blocks_defer
    /\ \E i \in DOMAIN meshgen_channel : ev.pos \in meshgen_channel[i]

\* C20 (as stated): a chunk holds a deferred record exactly when it is in
\* the block store with a neighbour missing and no job for it was ever
\* sent.  Under SpecTracker meshgen_channel holds every job ever sent.
C20_Original ==
    \A c \in env.world :
        c \in DOMAIN blocks_defer
        <=> /\ c \in DOMAIN blocks
            /\ PresentFaces(c) # Faces
            /\ \A i \in DOMAIN meshgen_channel : c \notin meshgen_channel[i]

(* C21: the atlas and the map renderer are built exactly once, by the      *)
(* first final-batch media delivery: a step of the event loop taken while  *)
(* there is a map renderer builds no further one and, when it belongs to   *)
(* the handling of a final media batch, keeps the Block Store, the         *)
(* deferred records and the render models.                                 *)
C21_BuiltOnce ==
    [][ map = "Some" =>
          /\ map_builds' = map_builds
          /\ ev'.op \in { "media_final", "new" } =>
                /\ blocks' = blocks
                /\ blocks_defer' = blocks_defer
                /\ block_models' = block_models ]_vars

\* the step in which the attempt to render ends with a frame error
FrameErrorStep == gfx_pc = "render" /\ ev'.op = "frame_error"

(* C22: when the frame cannot be had, a lost surface is configured again   *)
(* and the loop goes on, out of memory makes the event loop exit, and any  *)
(* other error is only logged and the loop goes on; in each case the       *)
(* failed attempt leaves the state of the map renderer as it was.          *)
C22_FrameErrors ==
    [][ FrameErrorStep =>
          /\ ev'.error = "Lost" => ev'.configured /\ flow' = "Poll"
          /\ ev'.error = "OutOfMemory" => flow' = "Exit"
          /\ ev'.error \notin { "Lost", "OutOfMemory" } =>
                ~ev'.configured /\ flow' = "Poll"
          /\ gfx_pc' = "events"
          /\ UNCHANGED << map, blocks, blocks_defer, block_models,
                          queue_consume, queue_produce, meshgen_channel,
                          vbuf_live, draws, map_builds >> ]_vars

\* a lost surface met while the map renderer has a render model
C22_Witness ==
    /\ ev.op = "frame_error"
    /\ ev.error = "Lost"
    /\ ev.configured
    /\ flow = "Poll"
    /\ map = "Some"
    /\ block_models # EmptyMap

\* the vertices that voxel `index` has in the two lists of the mesh
VerticesOf(index) ==
    { r \in buffer.vertices \cup buffer.vertices_blend : r.index = index }

\* the voxels that have a vertex in one of the two lists of the mesh
MeshedVoxels ==
    { r.index : r \in buffer.vertices \cup buffer.vertices_blend }

(* C23: after create_mesh, a voxel whose content id has no node definition *)
(* or whose node has draw type None has no vertex in either list, and a    *)
(* Cube, Liquid or GlassLike voxel, before or after such a voxel in the    *)
(* chunk, has the face toward a voxel without node definition.             *)
C23_FaultyVoxels ==
    mesh_args.returned =>
        LET meshed == MeshedVoxels
            faces  == EmittedFaces
        IN  \A index \in 0..(CHUNK_VOXELS - 1) :
                LET content == VoxelAt(mesh_args.block, index)
                IN  /\ DrawTypeOf(content) \in { "Unknown", "None" } =>
                           index \notin meshed
                    /\ DrawTypeOf(content) \in { "Cube", "Liquid", "GlassLike" } =>
                           \A f \in Faces :
                               LET n == AdjacentContent(mesh_args.block,
                                            mesh_args.nbors, index, f)
                               IN  (n # NoBlock /\ DrawTypeOf(n) = "Unknown") =>
                                       << index, f >> \in faces

\* a chunk of stone was meshed around one voxel without node definition:
\* that voxel has no vertex, and the six voxels around it, three of them
\* later in param_0, have the face toward it
C23_Witness ==
    /\ mesh_args.returned
    /\ mesh_args.block.fill = "stone"
    /\ mesh_args.block.is = "ignore"
    /\ VerticesOf(InnerVoxel) = {}
    /\ Cardinality(EmittedFaces) = 6
    /\ \E e \in EmittedFaces : e[1] > InnerVoxel
    /\ \E e \in EmittedFaces : e[1] < InnerVoxel

\* the step is an add_block of chunk c that finds a deferred record of c and
\* leaves one
IsRedeliveryStep(c) ==
    /\ IsAddBlockStep
    /\ ev'.pos = c
    /\ c \in DOMAIN blocks_defer
    /\ c \in DOMAIN blocks_defer'

(* C26 (as amended): when a chunk that holds a deferred record is          *)
(* delivered again with a neighbour still missing, add_block writes the    *)
(* new mask and count into the record and keeps its timestamp: the age of  *)
(* the record is the one it had, and the deadline stays measured from the  *)
(* delivery that created the record.                                       *)
C26_RedeliveryKeepsTime ==
    [][ \A c \in env.world :
          IsRedeliveryStep(c) =>
              /\ blocks_defer'[c].mask =
                     [ f \in Faces |-> NborPos(c, f) \in DOMAIN blocks' ]
              /\ blocks_defer'[c].count = MissingAfter(c)
              /\ blocks_defer'[c].elapsed = blocks_defer[c].elapsed ]_vars

\* a chunk was delivered again after time had passed and after another
\* chunk got its record: its record is older than the other one
C26_Witness ==
    /\ ev.op = "add_block"
    /\ ev.pos \in DOMAIN blocks_defer
    /\ blocks_defer[ev.pos].elapsed > 0
    /\ blocks_ver > Cardinality(DOMAIN blocks)
    /\ \E b \in DOMAIN blocks_defer : blocks_defer[b].elapsed = 0

\* C26 (as stated): the record of a chunk delivered again with a neighbour
\* still missing has the current time as its timestamp.
C26_Original ==
    [][ \A c \in env.world :
          IsRedeliveryStep(c) => blocks_defer'[c].elapsed = 0 ]_vars

(* C27: in a call add_block(C), a face neighbour that is in the Block      *)
(* Store without a deferred record gets exactly one job from the call and  *)
(* counts as satisfied for C; a face neighbour with a deferred record gets *)
(* a job from the call exactly when the call takes its count to 0, and     *)
(* counts as satisfied too; a face neighbour absent from the store gets no *)
(* job and stays unsatisfied.                                              *)
C27_NeighbourJobs ==
    [][ IsAddBlockStep =>
          \A f \in Faces :
              LET c == ev'.pos
                  n == NborPos(c, f)
                  sent == Occurrences(ev'.sends, n)
                  satisfied == IF c \in DOMAIN blocks_defer'
                               THEN blocks_defer'[c].mask[f]
                               ELSE Occurrences(ev'.sends, c) = 1
              IN  CASE n \in DOMAIN blocks_defer ->
                         /\ sent = IF /\ ~blocks_defer[n].mask[ReverseFace(f)]
                                      /\ blocks_defer[n].count = 1
                                   THEN 1 ELSE 0
                         /\ satisfied
                    [] n \notin DOMAIN blocks_defer /\ n \in DOMAIN blocks ->
                         sent = 1 /\ satisfied
                    [] OTHER ->
                         /\ sent = 0
                         /\ c \in DOMAIN blocks_defer'
                         /\ ~blocks_defer'[c].mask[f] ]_vars

\* a chunk was inserted next to a stored neighbour without record, which
\* got its job, a neighbour with a record, which got none, and an absent
\* neighbour
C27_Witness ==
    /\ ev.op = "add_block"
    /\ \E f1, f2, f3 \in Faces :
         LET n1 == NborPos(ev.pos, f1)
             n2 == NborPos(ev.pos, f2)
             n3 == NborPos(ev.pos, f3)
         IN  /\ n1 \in DOMAIN blocks
             /\ n1 \notin DOMAIN blocks_defer
             /\ Occurrences(ev.sends, n1) = 1
             /\ n2 \in DOMAIN blocks_defer
             /\ Occurrences(ev.sends, n2) = 0
             /\ n3 \notin DOMAIN blocks
             /\ Occurrences(ev.sends, n3) = 0
             /\ blocks_defer[ev.pos].mask[f1]
             /\ blocks_defer[ev.pos].mask[f2]
             /\ ~blocks_defer[ev.pos].mask[f3]

\* the positions of the worker closure at which it holds no guard: blocked
\* in recv, before blocks.read(), inside create_mesh, before output.lock(),
\* and ended
Unlocked == { "recv", "read", "mesh", "insert", "dead" }

(* C24: a worker holds the read lock of the Block Store only between       *)
(* blocks.read() and the end of its lookups, and the mutex of the produce  *)
(* map only for its insert; it holds neither inside create_mesh nor while  *)
(* it waits in recv, so while every worker is meshing or waiting both      *)
(* locks are free for add_block and update().                              *)
C24_NoLockWhileMeshing ==
    /\ \A w \in Workers :
         /\ w \in readers <=> wpc[w] = "lookup"
         /\ queue_lock = w <=> wpc[w] = "locked"
         /\ wpc[w] \in { "recv", "mesh" } =>
                w \notin readers /\ queue_lock # w
    /\ (\A w \in Workers : wpc[w] \in Unlocked) =>
           WriteLockFree /\ QueueLockFree

\* both workers are inside create_mesh, and add_block has completed since
\* each of them read the store
C24_Witness ==
    /\ \A w \in Workers : wpc[w] = "mesh" /\ wblock[w].ver < blocks_ver
    /\ ev.op = "add_block"
    /\ WriteLockFree
    /\ QueueLockFree

\* the step in which create_mesh panics in worker w
IsPanicStep(w) == wpc[w] = "mesh" /\ wpc'[w] = "dead"

(* C25: when create_mesh panics in a worker, the worker holds neither the  *)
(* read lock of the Block Store nor the mutex of the produce map, and the  *)
(* panic leaves both locks as they were and unpoisoned; the channel, the   *)
(* produce map, the render models and the other worker are untouched, so   *)
(* that only the mesh of the failed job is missing; an ended worker never  *)
(* holds a lock afterwards.                                                *)
C25_PanicIsLocal ==
    [][ /\ \A w \in Workers :
             /\ IsPanicStep(w) =>
                   /\ w \notin readers
                   /\ queue_lock # w
                   /\ UNCHANGED << readers, queue_lock, poisoned,
                                   meshgen_channel, queue_produce,
                                   queue_consume, block_models, blocks,
                                   blocks_defer, rpc >>
                   /\ \A v \in Workers \ {w} :
                         /\ wpc'[v] = wpc[v]
                         /\ wpos'[v] = wpos[v]
                         /\ wblock'[v] = wblock[v]
                   /\ wpos[w] \notin DOMAIN queue_produce' \/
                         wpos[w] \in DOMAIN queue_produce
             /\ wpc'[w] = "dead" => w \notin readers' /\ queue_lock' # w
        /\ poisoned' = {} ]_vars

\* one worker has ended in a panic; since then add_block has completed and
\* the other worker has taken a job and read the store, and update() has
\* installed a render model
C25_Witness ==
    \E w \in Workers, v \in Workers :
        /\ wpc[w] = "dead"
        /\ wpc[v] = "mesh"
        /\ wblock[v].ver > wblock[w].ver
        /\ block_models # EmptyMap
        /\ WriteLockFree
        /\ QueueLockFree

\* the step in which worker w looks up a centre that the store lacks
IsMissingCentreStep(w) ==
    /\ wpc[w] = "lookup"
    /\ wpc'[w] # "lookup"
    /\ wpos[w] \notin DOMAIN blocks

(* C28: a worker whose job is a coordinate without a chunk in the Block    *)
(* Store leaves the produce map as it is, gives the read lock back and     *)
(* returns to recv for the next job.                                       *)
C28_MissingCentre ==
    [][ \A w \in Workers :
          IsMissingCentreStep(w) =>
              /\ queue_produce' = queue_produce
              /\ w \in readers
              /\ w \notin readers'
              /\ queue_lock' # w
              /\ wpc'[w] = "recv"
              /\ wblock'[w] = NoSnapshot
              /\ meshgen_channel' = meshgen_channel ]_vars

\* the store is empty and the three jobs have all been taken and given up:
\* one of the two workers took a job after it had given one up
C28_Witness ==
    /\ blocks = EmptyMap
    /\ meshgen_channel = << >>
    /\ \A w \in Workers : wpc[w] = "recv"
    /\ queue_produce = EmptyMap
    /\ readers = {}

\* the sum of n * (number of faces of list with n vertices) over the
\* vertex numbers in ns
RECURSIVE SumVertices(_, _)
SumVertices(list, ns) ==
    IF ns = {} THEN 0
    ELSE LET n == CHOOSE m \in ns : TRUE
         IN  n * Cardinality({ r \in list : Len(r.order) = n })
               + SumVertices(list, ns \ {n})

\* Vec::len of a vertex list: the vertices of all its faces
VertexCount(list) == SumVertices(list, { Len(r.order) : r \in list })

(* C29: after create_mesh every face in either list has the six vertices   *)
(* of its CUBE row in order when the tile has the back-face-cull flag, and *)
(* twelve when it lacks it, the second six being the first six backwards;  *)
(* the length of each list is a multiple of 6.                             *)
C29_FaceVertices ==
    mesh_args.returned =>
        /\ \A r \in buffer.vertices \cup buffer.vertices_blend :
             LET cull == NodeDef(VoxelAt(mesh_args.block, r.index)).backface_cull
             IN  /\ Len(r.order) = IF cull THEN 6 ELSE 12
                 /\ \A i \in 1..6 : r.order[i] = i - 1
                 /\ ~cull => \A i \in 1..6 : r.order[6 + i] = r.order[7 - i]
        /\ VertexCount(buffer.vertices) % 6 = 0
        /\ VertexCount(buffer.vertices_blend) % 6 = 0

\* a chunk of air was meshed around one voxel of a liquid whose tiles lack
\* the flag: six faces of twelve vertices
C29_Witness ==
    /\ mesh_args.returned
    /\ mesh_args.block.fill = "air"
    /\ mesh_args.block.is = "lava"
    /\ Cardinality(buffer.vertices) = 6
    /\ \A r \in buffer.vertices : Len(r.order) = 12
    /\ VertexCount(buffer.vertices) = 72

\* the directions a deferred record has not marked
UnmarkedFaces(rec) == { f \in Faces : ~rec.mask[f] }

(* C30: the count of every deferred record is the number of directions its *)
(* mask has not marked, which is the number of face neighbours of its      *)
(* chunk that the Block Store lacks, and lies between 1 and 6; the 8-bit   *)
(* count never wraps below zero.                                           *)
C30_RecordCount ==
    \A c \in DOMAIN blocks_defer :
        /\ blocks_defer[c].count = Cardinality(UnmarkedFaces(blocks_defer[c]))
        /\ UnmarkedFaces(blocks_defer[c]) = Faces \ PresentFaces(c)
        /\ blocks_defer[c].count >= 1
        /\ blocks_defer[c].count <= 6

\* a record is down to one missing neighbour after five neighbours came,
\* one of the chunks having been delivered twice
C30_Witness ==
    /\ \E c \in DOMAIN blocks_defer :
         /\ blocks_defer[c].count = 1
         /\ Cardinality(PresentFaces(c)) = 5
    /\ blocks_ver > Cardinality(DOMAIN blocks)

\* the step delivers a face neighbour of c that the record of c has marked
CountedNborArrives(c) ==
    /\ IsAddBlockStep
    /\ c \in DOMAIN blocks_defer
    /\ \E f \in Faces :
         /\ NborPos(c, f) = ev'.pos
         /\ blocks_defer[c].mask[f]

(* C31: an add_block of a neighbour that the deferred record of a chunk    *)
(* has already marked leaves the record as it is (mask, count and          *)
(* timestamp) and sends no job for the chunk, at every such delivery.      *)
C31_RedeliveryIdempotent ==
    [][ \A c \in env.world :
          CountedNborArrives(c) =>
              /\ c \in DOMAIN blocks_defer'
              /\ blocks_defer'[c] = blocks_defer[c]
              /\ Occurrences(ev'.sends, c) = 0 ]_vars

\* a chunk was delivered again after a neighbour, whose record is younger
\* than its own, had marked it
C31_Witness ==
    /\ ev.op = "add_block"
    /\ ev.pos \in DOMAIN blocks_defer
    /\ blocks_defer[ev.pos].elapsed > 0
    /\ \E c \in DOMAIN blocks_defer, f \in Faces :
         /\ NborPos(c, f) = ev.pos
         /\ blocks_defer[c].mask[f]
         /\ blocks_defer[c].elapsed = 0
         /\ blocks_defer[c].count = Cardinality(Faces \ PresentFaces(c))

\* the coordinates queued on the channel
QueuedJobs == UNION { meshgen_channel[i] : i \in DOMAIN meshgen_channel }

\* the coordinates the workers hold as their jobs
HeldJobs == { wpos[w] : w \in Workers } \ { NoPos }

(* C32: every coordinate that has a deferred record, waits on the channel, *)
(* is the job of a worker, is a key of the produce or of the consume map   *)
(* or is a key of the render model table is a key of the Block Store, so   *)
(* that no worker looks up a centre the store lacks.                       *)
C32_KeysInStore ==
    /\ DOMAIN blocks_defer \subseteq DOMAIN blocks
    /\ QueuedJobs \subseteq DOMAIN blocks
    /\ HeldJobs \subseteq DOMAIN blocks
    /\ DOMAIN queue_produce \subseteq DOMAIN blocks
    /\ DOMAIN queue_consume \subseteq DOMAIN blocks
    /\ DOMAIN block_models \subseteq DOMAIN blocks

\* a record, a queued job, a job in the hands of a worker and a published
\* mesh exist together
C32_Witness ==
    /\ blocks_defer # EmptyMap
    /\ QueuedJobs # {}
    /\ HeldJobs # {}
    /\ queue_produce # EmptyMap

\* the step in which worker w makes the last of its seven reads
IsLastReadStep(w) == wpc[w] = "nbors" /\ wpc'[w] = "mesh"

(* C33: while a worker holds the read lock no add_block changes the Block  *)
(* Store, so the centre and the six neighbours a worker has read are the   *)
(* chunks of one state of the store: the one at its last read.             *)
C33_ReadsOfOneState ==
    [][ /\ readers # {} => blocks' = blocks /\ blocks_ver' = blocks_ver
        /\ \A w \in Workers :
             IsLastReadStep(w) => wblock'[w] = Snapshot(wpos[w]) ]_vars

\* both workers hold the read lock, one of them between its first and its
\* last read, while the render thread has a chunk to deliver
C33_Witness ==
    /\ readers = Workers
    /\ \E w \in Workers :
         /\ wpc[w] = "nbors"
         /\ \E f \in Faces : NborPos(wpos[w], f) \in DOMAIN blocks
    /\ rpc = "idle"
    /\ blocks_ver < env.budget

\* a statement of the closure of worker w, under SpecReads
WorkerStep(w) ==
    \/ WorkerRecv(w)
    \/ WorkerAcquireRead(w)
    \/ WorkerReadCentre(w)
    \/ WorkerReadNbors(w)
    \/ WorkerMesh(w)
    \/ WorkerAcquireQueue(w)
    \/ WorkerInsert(w)

(* C34: no worker holds the read lock of the Block Store and the mutex of  *)
(* the produce map together; and nothing is stuck: when a job is queued or *)
(* a worker is inside an iteration some worker can take a step, when       *)
(* add_block waits for the write lock a reader can go on, when update()    *)
(* waits for the mutex its holder can go on, and update() can start.       *)
C34_NoDeadlock ==
    /\ \A w \in Workers : ~ (w \in readers /\ queue_lock = w)
    /\ (QueuedJobs # {} \/ \E w \in Workers : wpc[w] # "recv") =>
           \E w \in Workers : ENABLED WorkerStep(w)
    /\ ~WriteLockFree =>
           \E w \in readers :
               ENABLED (WorkerReadCentre(w) \/ WorkerReadNbors(w))
    /\ ~QueueLockFree =>
           /\ queue_lock \in Workers
           /\ ENABLED WorkerInsert(queue_lock)
    /\ rpc = "idle" => ENABLED UpdateTimeout

\* one worker holds the mutex, the other waits for it and no job is
\* queued: the holder is the one that can go on
C34_Witness ==
    /\ \E w \in Workers, v \in Workers :
         /\ queue_lock = w
         /\ wpc[v] = "insert"
         /\ ~ ENABLED WorkerAcquireQueue(v)
         /\ ENABLED WorkerInsert(w)
    /\ QueuedJobs = {}

\* a worker ended in a panic while the job of chunk c was in its hands
JobLost(c) == \E w \in Workers : wpc[w] = "dead" /\ wpos[w] = c

AckedAreStored ==
    \A pos \in conn.acked :
        \/ pos \in DOMAIN blocks
        \/ \E i \in 1 .. Len(events) :
             events[i].type = "MapBlock" /\ events[i].pos = pos

(* C36: every block acknowledged with GotBlocks is stored in the Block     *)
(* Store once the event loop has handled its MapBlock event, also a block  *)
(* that arrives before the map renderer is constructed.                    *)
C36_AckedStored == AckedAreStored


\* the slots of the slices create_atlas returns: one per texture pushed
Slices == 0 .. Len(textures) - 1

(* C37: when create_atlas has returned, the slot index of every tile of    *)
(* every node (its tiles, overlay tiles and special tiles, in the chain of *)
(* lines 15-18) is smaller than the number of slices, so that the lookup   *)
(* textures[tile.texture.custom] of the mesher is in bounds.               *)
C37_SlotsInBounds ==
    atlas_pc.at = "done" =>
        \A n \in DOMAIN nodes : \A t \in DOMAIN nodes[n] :
            nodes[n][t].custom \in Slices

\* create_atlas has returned for two nodes, with more than one slice, and a
\* tile of the last node carries the last slot
C37_Witness ==
    /\ atlas_pc.at = "done"
    /\ gfx_pc = "build"
    /\ Len(nodes) = 2
    /\ Len(textures) > 1
    /\ \E t \in DOMAIN nodes[2] : nodes[2][t].custom = Len(textures) - 1
    /\ \E t \in DOMAIN nodes[1] : nodes[1][t].custom = 0

\* the order of the auth states
AuthRank(a) == CASE a = "Init" -> 0 [] a = "Verify" -> 1 [] a = "Done" -> 2

\* this step sends a packet of kind p
Sends(p) == conn'.tx[p] > conn.tx[p]

(* C38: the auth state only moves forward (Init to Verify to Done, or Init *)
(* to Done); a Hello outside Init and an SrpBytesSaltB outside Verify      *)
(* change nothing but the count of packets handled; FirstSrp and SrpBytesA *)
(* are sent from Init only and SrpBytesM from Verify only, each at most    *)
(* once per connection; and the Init packet is sent only in state Init.    *)
C38_AuthForward ==
    [][ /\ AuthRank(conn'.auth) >= AuthRank(conn.auth)
        /\ \A p \in { "FirstSrp", "SrpBytesA", "SrpBytesM" } :
             /\ conn'.tx[p] <= 1
             /\ Sends(p) => conn'.auth # conn.auth
        /\ Sends("FirstSrp") \/ Sends("SrpBytesA") => conn.auth = "Init"
        /\ Sends("SrpBytesM") => conn.auth = "Verify"
        /\ Sends("Init") => conn.auth = "Init" /\ conn'.auth = "Init"
        /\ conn'.auth # conn.auth =>
             \/ Sends("FirstSrp") /\ conn'.auth = "Done"
             \/ Sends("SrpBytesA") /\ conn'.auth = "Verify"
             \/ Sends("SrpBytesM") /\ conn'.auth = "Done"
      ]_vars

\* the handshake by SRP is over, a second Hello and a second SrpBytesSaltB
\* have been handled since, and each packet went out once
C38_Witness ==
    /\ conn.auth = "Done"
    /\ conn.running
    /\ conn.rx = MaxPkts
    /\ conn.tx["SrpBytesA"] = 1
    /\ conn.tx["SrpBytesM"] = 1
    /\ conn.tx["FirstSrp"] = 0
    /\ conn.tx["Init"] > 0
    /\ conn.tx["Init2"] = 0

(* C39: CltReady is sent only when the final media batch has been handled  *)
(* and the map renderer is constructed, and one CltReady is sent for each  *)
(* construction: the CltReady packets sent and the Ready events on their   *)
(* way to the network task are as many as the constructions.               *)
C39_ReadyPerBuild ==
    /\ conn.tx["CltReady"] + Len(net_events) = map_builds
    /\ conn.tx["CltReady"] > 0 => map = "Some"
    /\ map = "Some" <=> map_builds > 0

\* the map renderer was constructed twice and CltReady was sent for the
\* first construction, the Ready of the second is on its way
C39_Witness ==
    /\ map_builds = 2
    /\ conn.tx["CltReady"] = 1
    /\ net_events = << "Ready" >>
    /\ ev.op = "new"

(* C40: for every coordinate add_block was called with, also one with a   *)
(* component of -32768 or 32767, the six neighbour coordinates computed    *)
(* are the adjacent ones: the addition neither panics nor wraps.           *)
C40_NeighboursAdjacent ==
    /\ rpc # "dead"
    /\ \A c \in DOMAIN blocks : \A f \in Faces :
           NborPos(c, f) = ExactNbor(c, f)

===========================================================================
